---- MODULE Spec2Model ----
(***************************************************************************)
(* Bit-vector generation and mutation-histogram aggregation of rna_map.    *)
(*                                                                         *)
(* Strings of the program (reference sequences, read sequences, quality    *)
(* strings, CIGAR strings) are tuples of one-character strings.  Python    *)
(* dicts are functions, numpy arrays of length len(sequence)+1 are         *)
(* functions over 0..len(sequence).                                        *)
(***************************************************************************)
EXTENDS Integers, Sequences, FiniteSets, TLC

VARIABLES
    histos,     \* the MutationHistogram objects, by owner (worker / chunk)
    whole,      \* one histogram that records every bit vector of the run
    absorbed,   \* for each histogram, the owners whose reads it accounts for
    item,       \* the reads the SAM iterator yields next (1 or 2 AlignedReads)
    bitvec,     \* the BitVector the iterator built last: [reads, data]
    op,         \* the last operation and its outcome
    pre,        \* histos before the last operation
    params,     \* the generator's parameter dictionary
    nreads,     \* number of SAM items consumed so far
    conv,       \* the frame of a __convert_read_to_bit_vector call followed
                \* operation by operation
    written,    \* the last record written to bit-vector storage or to the
                \* rejected file
    sam,        \* the PairedSamIterator over a SAM file, and what it yielded
    dicts       \* the histogram dictionaries of a merge: which histogram
                \* object each one holds under each key

vars ==
    <<histos, whole, absorbed, item, bitvec, op, pre, params, nreads, conv, written,
      sam, dicts>>

----------------------------------------------------------------------------
(* Symbol alphabet                                                          *)

miss_info == "*"
ambig_info == "?"
nomut_bit == "0"
del_bit == "1"

Bases == {"A", "C", "G", "T"}

Alphabet == {miss_info, ambig_info, nomut_bit, del_bit} \cup Bases

SkipReasons == {"low_mapq", "short_read", "too_many_muts", "muts_too_close"}

NoStructure == "None"

----------------------------------------------------------------------------
(* MutationHistogram                                                        *)

Zeros(n) == [p \in 0..n |-> 0]

MutationHistogram(name, sequence, data_type, start, end) ==
    [name |-> name,
     sequence |-> sequence,
     structure |-> NoStructure,
     data_type |-> data_type,
     num_reads |-> 0,
     num_aligned |-> 0,
     skips |-> [k \in SkipReasons |-> 0],
     num_of_mutations |-> Zeros(Len(sequence)),
     mut_bases |-> Zeros(Len(sequence)),
     info_bases |-> Zeros(Len(sequence)),
     del_bases |-> Zeros(Len(sequence)),
     ins_bases |-> Zeros(Len(sequence)),
     cov_bases |-> Zeros(Len(sequence)),
     mod_bases |-> [b \in Bases |-> Zeros(Len(sequence))],
     start |-> start,
     end |-> end]

get_nuc_coords(mh) == mh.start .. mh.end

\* numpy `a += b` on two arrays of one length
ArrayAdd(a, b) == [p \in DOMAIN a |-> a[p] + b[p]]

\* merge without its last identity check
MergeMismatch_no_structure(self, other) ==
    \/ self.name # other.name
    \/ self.sequence # other.sequence
    \/ self.data_type # other.data_type
    \/ self.start # other.start
    \/ self.end # other.end

\* the six identity checks of merge, each raising ValueError
MergeMismatch(self, other) ==
    \/ self.name # other.name
    \/ self.sequence # other.sequence
    \/ self.data_type # other.data_type
    \/ self.start # other.start
    \/ self.end # other.end
    \/ self.structure # other.structure

\* merge without the sum of num_aligned
MergeSums_no_aligned(self, other) ==
    [self EXCEPT
        !.num_reads = @ + other.num_reads,
        !.skips = [k \in DOMAIN @ |-> @[k] + other.skips[k]],
        !.num_of_mutations =
            [ii \in DOMAIN @ |->
                IF ii \in DOMAIN other.num_of_mutations
                    THEN @[ii] + other.num_of_mutations[ii]
                    ELSE @[ii]],
        !.mut_bases = ArrayAdd(@, other.mut_bases),
        !.ins_bases = ArrayAdd(@, other.ins_bases),
        !.cov_bases = ArrayAdd(@, other.cov_bases),
        !.info_bases = ArrayAdd(@, other.info_bases),
        !.mod_bases = [key \in DOMAIN @ |-> ArrayAdd(@[key], other.mod_bases[key])]]

\* merge without the sum of info_bases
MergeSums_no_info(self, other) ==
    [self EXCEPT
        !.num_reads = @ + other.num_reads,
        !.num_aligned = @ + other.num_aligned,
        !.skips = [k \in DOMAIN @ |-> @[k] + other.skips[k]],
        !.num_of_mutations =
            [ii \in DOMAIN @ |->
                IF ii \in DOMAIN other.num_of_mutations
                    THEN @[ii] + other.num_of_mutations[ii]
                    ELSE @[ii]],
        !.mut_bases = ArrayAdd(@, other.mut_bases),
        !.ins_bases = ArrayAdd(@, other.ins_bases),
        !.cov_bases = ArrayAdd(@, other.cov_bases),
        !.mod_bases = [key \in DOMAIN @ |-> ArrayAdd(@[key], other.mod_bases[key])]]

\* merge without the loop over num_of_mutations
MergeSums_no_buckets(self, other) ==
    [self EXCEPT
        !.num_reads = @ + other.num_reads,
        !.num_aligned = @ + other.num_aligned,
        !.skips = [k \in DOMAIN @ |-> @[k] + other.skips[k]],
        !.mut_bases = ArrayAdd(@, other.mut_bases),
        !.ins_bases = ArrayAdd(@, other.ins_bases),
        !.cov_bases = ArrayAdd(@, other.cov_bases),
        !.info_bases = ArrayAdd(@, other.info_bases),
        !.mod_bases = [key \in DOMAIN @ |-> ArrayAdd(@[key], other.mod_bases[key])]]

\* self after a successful self.merge(other)
MergeSums(self, other) ==
    [self EXCEPT
        !.num_reads = @ + other.num_reads,
        !.num_aligned = @ + other.num_aligned,
        !.skips = [k \in DOMAIN @ |-> @[k] + other.skips[k]],
        !.num_of_mutations =
            [ii \in DOMAIN @ |->
                IF ii \in DOMAIN other.num_of_mutations
                    THEN @[ii] + other.num_of_mutations[ii]
                    ELSE @[ii]],
        !.mut_bases = ArrayAdd(@, other.mut_bases),
        !.ins_bases = ArrayAdd(@, other.ins_bases),
        !.cov_bases = ArrayAdd(@, other.cov_bases),
        !.info_bases = ArrayAdd(@, other.info_bases),
        !.mod_bases = [key \in DOMAIN @ |-> ArrayAdd(@[key], other.mod_bases[key])]]

\* self after self.merge(other): unchanged when the call raises
merge(self, other) ==
    IF MergeMismatch(self, other) THEN self ELSE MergeSums(self, other)

\* record_skip without its first statement
record_skip_no_read(mh, t) ==
    [mh EXCEPT !.skips[t] = @ + 1]

record_skip(mh, t) ==
    [mh EXCEPT !.num_reads = @ + 1, !.skips[t] = @ + 1]

----------------------------------------------------------------------------
(* BitVectorGenerator: acceptance filter and aggregation                    *)

\* a read's length over the reference's length falls below the cutoff; the
\* cutoff is a percentage (0.10 is 10)
are_reads_to_short(mh, bit_vector, prm) ==
    /\ prm.stricter_bv_constraints
    /\ \E r \in DOMAIN bit_vector.reads :
          Len(bit_vector.reads[r].seq) * 100
              < prm.percent_length_cutoff * Len(mh.sequence)

\* the number of mutation calls inside the histogram's window
CountMuts(mh, data) ==
    Cardinality({pos \in get_nuc_coords(mh) :
                    pos \in DOMAIN data /\ data[pos] \in Bases})

too_many_mutations(mh, bit_vector, prm) ==
    /\ prm.stricter_bv_constraints
    /\ CountMuts(mh, bit_vector.data) > prm.mutation_count_cutoff

\* range(pos - cutoff, pos + cutoff)
CloseRange(pos, cutoff) == (pos - cutoff) .. (pos + cutoff - 1)

muts_too_close(mh, bit_vector, prm) ==
    /\ prm.stricter_bv_constraints
    /\ \E pos \in get_nuc_coords(mh) :
          /\ pos \in DOMAIN bit_vector.data
          /\ bit_vector.data[pos] \in Bases
          /\ \E pos2 \in CloseRange(pos, prm.min_mut_distance) :
                /\ pos2 # pos
                /\ pos2 \in DOMAIN bit_vector.data
                /\ bit_vector.data[pos2] \in Bases

low_mapq(bit_vector, prm) ==
    \E r \in DOMAIN bit_vector.reads :
        bit_vector.reads[r].mapq < prm.map_score_cutoff

\* __record_bit_vector with the calls of __too_many_mutations and
\* __are_reads_to_short exchanged
Decision_swapped(mh, bit_vector, prm) ==
    IF low_mapq(bit_vector, prm) THEN "low_mapq"
    ELSE IF too_many_mutations(mh, bit_vector, prm) THEN "too_many_muts"
    ELSE IF are_reads_to_short(mh, bit_vector, prm) THEN "short_read"
    ELSE IF muts_too_close(mh, bit_vector, prm) THEN "muts_too_close"
    ELSE "accepted"

\* the decision of __record_bit_vector: the reason of the first check that
\* returns, "accepted" when none does
Decision(mh, bit_vector, prm) ==
    IF low_mapq(bit_vector, prm) THEN "low_mapq"
    ELSE IF are_reads_to_short(mh, bit_vector, prm) THEN "short_read"
    ELSE IF too_many_mutations(mh, bit_vector, prm) THEN "too_many_muts"
    ELSE IF muts_too_close(mh, bit_vector, prm) THEN "muts_too_close"
    ELSE "accepted"

\* positions of the window that carry a symbol
Covered(mh, data) == {pos \in get_nuc_coords(mh) : pos \in DOMAIN data}

Bump(arr, hit) == [p \in DOMAIN arr |-> IF p \in hit THEN arr[p] + 1 ELSE arr[p]]

\* __update_mut_histo without the test for AMBIGUOUS before cov_bases
update_mut_histo_cov_ambig(mh, data) ==
    LET cov == Covered(mh, data)
        total_muts == Cardinality({pos \in cov : data[pos] \in Bases})
    IN  [mh EXCEPT
            !.num_reads = @ + 1,
            !.num_aligned = @ + 1,
            !.cov_bases = Bump(@, cov),
            !.mod_bases = [b \in DOMAIN @ |->
                              Bump(@[b], {pos \in cov : data[pos] = b})],
            !.mut_bases = Bump(@, {pos \in cov : data[pos] \in Bases}),
            !.del_bases = Bump(@, {pos \in cov : data[pos] = del_bit}),
            !.info_bases = Bump(@, cov),
            !.num_of_mutations = Bump(@, {total_muts})]

update_mut_histo(mh, data) ==
    LET cov == Covered(mh, data)
        total_muts == Cardinality({pos \in cov : data[pos] \in Bases})
    IN  [mh EXCEPT
            !.num_reads = @ + 1,
            !.num_aligned = @ + 1,
            !.cov_bases = Bump(@, {pos \in cov : data[pos] # ambig_info}),
            !.mod_bases = [b \in DOMAIN @ |->
                              Bump(@[b], {pos \in cov : data[pos] = b})],
            !.mut_bases = Bump(@, {pos \in cov : data[pos] \in Bases}),
            !.del_bases = Bump(@, {pos \in cov : data[pos] = del_bit}),
            !.info_bases = Bump(@, cov),
            !.num_of_mutations = Bump(@, {total_muts})]

\* the histogram after __record_bit_vector
record_bit_vector(mh, bit_vector, prm) ==
    LET d == Decision(mh, bit_vector, prm)
    IN  IF d = "accepted" THEN update_mut_histo(mh, bit_vector.data)
        ELSE record_skip(mh, d)

----------------------------------------------------------------------------
(* BitVectorIterator: CIGAR-to-bit-vector converter                         *)

EmptyMap == [p \in {} |-> miss_info]

\* d[k] = v on a dict
Put(d, k, v) == [p \in (DOMAIN d) \cup {k} |-> IF p = k THEN v ELSE d[p]]

\* the quality table of resources/phred_ascii.txt (Phred+33), on the quality
\* characters the model's reads use
PhredScore(c) ==
    CASE c = "5" -> 20
      [] c = ":" -> 25
      [] c = ";" -> 26
      [] c = "I" -> 40

Digits == {"0", "1", "2", "3", "4", "5", "6", "7", "8", "9"}

DigitValue(c) ==
    CASE c = "0" -> 0 [] c = "1" -> 1 [] c = "2" -> 2 [] c = "3" -> 3
      [] c = "4" -> 4 [] c = "5" -> 5 [] c = "6" -> 6 [] c = "7" -> 7
      [] c = "8" -> 8 [] c = "9" -> 9

\* [A-Z]
UpperCase ==
    {"A", "B", "C", "D", "E", "F", "G", "H", "I", "J", "K", "L", "M",
     "N", "O", "P", "Q", "R", "S", "T", "U", "V", "W", "X", "Y", "Z"}

\* last index of the run of digits that starts at k
RECURSIVE DigitRunEnd(_, _)
DigitRunEnd(c, k) ==
    IF k + 1 <= Len(c) /\ c[k + 1] \in Digits THEN DigitRunEnd(c, k + 1) ELSE k

\* int() of the digits c[k..e]
RECURSIVE IntOf(_, _, _)
IntOf(c, k, e) ==
    IF e < k THEN 0 ELSE IntOf(c, k, e - 1) * 10 + DigitValue(c[e])

\* re.findall(r"(\d+)([A-Z]{1})", c), scanning from index k: a run of digits
\* directly followed by an upper-case letter is one operation, anything
\* else is skipped
RECURSIVE FindAllFrom(_, _)
FindAllFrom(c, k) ==
    IF k > Len(c) THEN <<>>
    ELSE IF c[k] \notin Digits THEN FindAllFrom(c, k + 1)
    ELSE LET e == DigitRunEnd(c, k)
         IN  IF e + 1 <= Len(c) /\ c[e + 1] \in UpperCase
                THEN <<[length |-> IntOf(c, k, e), desc |-> c[e + 1]]>>
                        \o FindAllFrom(c, e + 2)
                ELSE FindAllFrom(c, k + 1)

parse_cigar(cigar_string) == FindAllFrom(cigar_string, 1)

\* s[a:b] of Python, on a tuple (0-based, negative indices count from the end)
PyIndex(n, a) == IF a < 0 THEN (IF a + n < 0 THEN 0 ELSE a + n)
                 ELSE (IF a > n THEN n ELSE a)

PySlice(s, a, b) ==
    LET lo == PyIndex(Len(s), a)
        hi == PyIndex(Len(s), b)
    IN  IF lo >= hi THEN <<>> ELSE SubSeq(s, lo + 1, hi)

\* the flanking signature the resolver builds for the deletion of `length`
\* bases that ends at new_del_end, inside the window of the deletion that
\* ends at i; for new_del_end = i it is orig_sur_seq
sur_seq(ref_seq, i, length, num_of_surbases, new_del_end) ==
    LET orig_del_start == i - length + 1
        orig_sur_start == orig_del_start - num_of_surbases
        orig_sur_end == i + num_of_surbases
        new_del_start == new_del_end - length + 1
    IN  PySlice(ref_seq, orig_sur_start - 1, new_del_start - 1)
            \o PySlice(ref_seq, new_del_end, orig_sur_end)

calc_ambig_reads(ref_seq, i, length, num_of_surbases) ==
    \E new_del_end \in (i - length) .. (i + length) :
        /\ new_del_end # i
        /\ sur_seq(ref_seq, i, length, num_of_surbases, new_del_end)
              = sur_seq(ref_seq, i, length, num_of_surbases, i)

\* _process_match_operation with >= for > in the quality test
RECURSIVE process_match_operation_ge(_, _, _, _, _, _)
process_match_operation_ge(st, read_seq, q_scores, ref_seq, length, qscore_cutoff) ==
    IF length = 0 THEN st
    ELSE LET bit ==
                IF PhredScore(q_scores[st.j + 1]) >= qscore_cutoff
                    THEN IF read_seq[st.j + 1] # ref_seq[st.i]
                            THEN read_seq[st.j + 1]
                            ELSE nomut_bit
                    ELSE ambig_info
         IN  process_match_operation_ge(
                 [bv |-> Put(st.bv, st.i, bit), i |-> st.i + 1, j |-> st.j + 1],
                 read_seq, q_scores, ref_seq, length - 1, qscore_cutoff)

\* the converter's cursors and map: [bv, i, j]; i is the 1-based reference
\* position, j the 0-based read position
RECURSIVE process_match_operation(_, _, _, _, _, _)
process_match_operation(st, read_seq, q_scores, ref_seq, length, qscore_cutoff) ==
    IF length = 0 THEN st
    ELSE LET bit ==
                IF PhredScore(q_scores[st.j + 1]) > qscore_cutoff
                    THEN IF read_seq[st.j + 1] # ref_seq[st.i]
                            THEN read_seq[st.j + 1]
                            ELSE nomut_bit
                    ELSE ambig_info
         IN  process_match_operation(
                 [bv |-> Put(st.bv, st.i, bit), i |-> st.i + 1, j |-> st.j + 1],
                 read_seq, q_scores, ref_seq, length - 1, qscore_cutoff)

RECURSIVE PutRun(_, _, _, _)
\* n times: bitvector[i] = bit; i += 1
PutRun(bv, i, n, bit) ==
    IF n <= 0 THEN bv ELSE PutRun(Put(bv, i, bit), i + 1, n - 1, bit)

\* _process_deletion_operation writing the resolved symbol at every deleted
\* position
process_deletion_operation_all(st, ref_seq, length, num_of_surbases) ==
    LET lead == IF length - 1 > 0 THEN length - 1 ELSE 0
        i == st.i + lead
        bit == IF calc_ambig_reads(ref_seq, i, length, num_of_surbases)
                  THEN ambig_info ELSE del_bit
    IN  [st EXCEPT !.bv = Put(PutRun(@, st.i, lead, bit), i, bit),
                   !.i = i + 1]

process_deletion_operation(st, ref_seq, length, num_of_surbases) ==
    LET lead == IF length - 1 > 0 THEN length - 1 ELSE 0
        i == st.i + lead
        bit == IF calc_ambig_reads(ref_seq, i, length, num_of_surbases)
                  THEN ambig_info ELSE del_bit
    IN  [st EXCEPT !.bv = Put(PutRun(@, st.i, lead, ambig_info), i, bit),
                   !.i = i + 1]

process_soft_clip_operation(st, length, op_index, total_ops) ==
    IF op_index = total_ops - 1
        THEN [bv |-> PutRun(st.bv, st.i, length, miss_info),
              i |-> st.i + length,
              j |-> st.j + length]
        ELSE [st EXCEPT !.j = @ + length]

\* the while loop of __convert_read_to_bit_vector from operation op_index
\* (0-based) on
RECURSIVE ConvertFrom(_, _, _, _, _)
ConvertFrom(st, cigar_ops, op_index, read, cfg) ==
    IF op_index >= Len(cigar_ops) THEN st.bv
    ELSE LET o == cigar_ops[op_index + 1]
         IN  IF o.desc = "M" THEN
                 ConvertFrom(
                     process_match_operation(st, read.seq, read.qual, cfg.ref_seq,
                                             o.length, cfg.qscore_cutoff),
                     cigar_ops, op_index + 1, read, cfg)
             ELSE IF o.desc = "D" THEN
                 ConvertFrom(
                     process_deletion_operation(st, cfg.ref_seq, o.length,
                                                cfg.num_of_surbases),
                     cigar_ops, op_index + 1, read, cfg)
             ELSE IF o.desc = "I" THEN
                 ConvertFrom([st EXCEPT !.j = @ + o.length],
                             cigar_ops, op_index + 1, read, cfg)
             ELSE IF o.desc = "S" THEN
                 ConvertFrom(
                     process_soft_clip_operation(st, o.length, op_index,
                                                 Len(cigar_ops)),
                     cigar_ops, op_index + 1, read, cfg)
             ELSE EmptyMap

\* cfg: the iterator's [ref_seq, qscore_cutoff, num_of_surbases]
convert_read_to_bit_vector(read, cfg) ==
    ConvertFrom([bv |-> EmptyMap, i |-> read.pos, j |-> 0],
                parse_cigar(read.cigar), 0, read, cfg)

is_mutation_vs_deletion(bit1, bit2) ==
    \/ bit1 = del_bit /\ bit2 \in Bases
    \/ bit1 \in Bases /\ bit2 = del_bit

\* _resolve_bit_conflict without its two rules that answer AMBIGUOUS
resolve_bit_conflict_first(bit1, bit2) ==
    LET bits == {bit1, bit2}
    IN  IF nomut_bit \in bits THEN nomut_bit
        ELSE IF ambig_info \in bits THEN CHOOSE b \in bits \ {ambig_info} : TRUE
        ELSE IF miss_info \in bits THEN CHOOSE b \in bits \ {miss_info} : TRUE
        ELSE bit1

resolve_bit_conflict(bit1, bit2) ==
    LET bits == {bit1, bit2}
    IN  IF nomut_bit \in bits THEN nomut_bit
        ELSE IF ambig_info \in bits THEN CHOOSE b \in bits \ {ambig_info} : TRUE
        ELSE IF miss_info \in bits THEN CHOOSE b \in bits \ {miss_info} : TRUE
        ELSE IF bit1 \in Bases /\ bit2 \in Bases THEN ambig_info
        ELSE IF is_mutation_vs_deletion(bit1, bit2) THEN ambig_info
        ELSE bit1

merge_paired_bit_vectors(bit_vector_1, bit_vector_2) ==
    [pos \in (DOMAIN bit_vector_1) \cup (DOMAIN bit_vector_2) |->
        IF pos \notin DOMAIN bit_vector_1 THEN bit_vector_2[pos]
        ELSE IF pos \notin DOMAIN bit_vector_2 THEN bit_vector_1[pos]
        ELSE IF bit_vector_2[pos] # bit_vector_1[pos]
            THEN resolve_bit_conflict(bit_vector_1[pos], bit_vector_2[pos])
            ELSE bit_vector_1[pos]]

\* the BitVector of BitVectorIterator.__next__ for the reads the SAM
\* iterator yields: one read, or the two mates of a pair
NextBitVector(reads, cfg) ==
    [reads |-> reads,
     data |-> IF Len(reads) = 2
                 THEN merge_paired_bit_vectors(
                          convert_read_to_bit_vector(reads[1], cfg),
                          convert_read_to_bit_vector(reads[2], cfg))
                 ELSE convert_read_to_bit_vector(reads[1], cfg)]

----------------------------------------------------------------------------
(* Bit-vector storage: the text and JSON writers, the conversion tool       *)

\* str.isalpha() on a symbol
isalpha(c) == c \in UpperCase

DigitOf(d) == CHOOSE c \in Digits : DigitValue(c) = d

\* str(n) of a natural number: its decimal digits
RECURSIVE str(_)
str(n) == IF n < 10 THEN <<DigitOf(n)>> ELSE str(n \div 10) \o <<DigitOf(n % 10)>>

\* int(s) of a string of digits with an optional sign
int(s) ==
    IF s # <<>> /\ s[1] = "-" THEN 0 - IntOf(s, 2, Len(s)) ELSE IntOf(s, 1, Len(s))

\* the characters of the names the model's histograms and reads carry
Chars(name) ==
    CASE name = "ref" -> <<"r", "e", "f">>
      [] name = "ref2" -> <<"r", "e", "f", "2">>
      [] name = "read" -> <<"r", "e", "a", "d">>
      [] name = "read2" -> <<"r", "e", "a", "d", "2">>
      [] name = "DMS" -> <<"D", "M", "S">>
      [] name = "SHAPE" -> <<"S", "H", "A", "P", "E">>

\* sep.join(parts) followed by a newline
RECURSIVE JoinLine(_, _)
JoinLine(parts, sep) ==
    IF Len(parts) = 1 THEN parts[1] \o <<"\n">>
    ELSE parts[1] \o <<sep>> \o JoinLine(Tail(parts), sep)

Whitespace == {" ", "\t", "\n", "\r"}

\* str.strip()
RECURSIVE strip(_)
strip(s) ==
    IF s = <<>> THEN s
    ELSE IF s[1] \in Whitespace THEN strip(Tail(s))
    ELSE IF s[Len(s)] \in Whitespace THEN strip(SubSeq(s, 1, Len(s) - 1))
    ELSE s

\* str.split(sep) on a one-character separator
RECURSIVE split(_, _)
split(s, sep) ==
    IF \A k \in DOMAIN s : s[k] # sep THEN <<s>>
    ELSE LET k == CHOOSE j \in DOMAIN s :
                      s[j] = sep /\ \A i \in 1..(j - 1) : s[i] # sep
         IN  <<SubSeq(s, 1, k - 1)>> \o split(SubSeq(s, k + 1, Len(s)), sep)

\* str.startswith(prefix)
startswith(s, prefix) ==
    Len(s) >= Len(prefix) /\ SubSeq(s, 1, Len(prefix)) = prefix

\* nothing written yet
NoRecord == [target |-> "none"]

\* TextStorageWriter.__init__: the writer's window and the three header
\* lines it writes
TextStorageWriter(name, sequence, data_type, start, end) ==
    [start |-> start,
     end |-> end,
     sequence |-> sequence,
     header |->
        <<JoinLine(<<<<"@", "r", "e", "f">>, Chars(name), sequence,
                     Chars(data_type)>>, "\t"),
          JoinLine(<<<<"@", "c", "o", "o", "r", "d", "i", "n", "a", "t", "e",
                       "s", ":">>,
                     str(start) \o <<",">> \o str(end) \o <<":">>
                         \o str(Len(sequence))>>, "\t"),
          JoinLine(<<<<"Q", "u", "e", "r", "y", "_", "n", "a", "m", "e">>,
                     <<"B", "i", "t", "_", "v", "e", "c", "t", "o", "r">>,
                     <<"N", "_", "M", "u", "t", "a", "t", "i", "o", "n", "s">>>>,
                   "\t")>>]

\* TextStorageWriter.write_bit_vector counting every covered position as a
\* mutation
text_write_bit_vector_covered(self, q_name, bit_vector) ==
    LET PosOf(k) == self.start + k - 1
        bit_string == [k \in 1..(self.end - self.start + 1) |->
                          IF PosOf(k) \notin DOMAIN bit_vector THEN "."
                          ELSE bit_vector[PosOf(k)]]
        n_mutations == Cardinality({k \in DOMAIN bit_string :
                                       PosOf(k) \in DOMAIN bit_vector})
    IN  [target |-> "text", start |-> self.start, end |-> self.end,
         lines |-> self.header \o
                     <<JoinLine(<<q_name, bit_string, str(n_mutations)>>, "\t")>>]

\* TextStorageWriter.write_bit_vector: the file after the write, as its
\* header and its last line
text_write_bit_vector(self, q_name, bit_vector) ==
    LET PosOf(k) == self.start + k - 1
        bit_string == [k \in 1..(self.end - self.start + 1) |->
                          IF PosOf(k) \notin DOMAIN bit_vector THEN "."
                          ELSE bit_vector[PosOf(k)]]
        n_mutations == Cardinality({k \in DOMAIN bit_string :
                                       /\ PosOf(k) \in DOMAIN bit_vector
                                       /\ isalpha(bit_vector[PosOf(k)])})
    IN  [target |-> "text", start |-> self.start, end |-> self.end,
         lines |-> self.header \o
                     <<JoinLine(<<q_name, bit_string, str(n_mutations)>>, "\t")>>]

\* the entries of a dict whose value is one of bits
Entries(d, bits) ==
    LET keys == {pos \in DOMAIN d : d[pos] \in bits}
    IN  [pos \in keys |-> d[pos]]

\* json.dump of a dict with integer keys: an object with the keys as strings
json_object(d) == [key \in {str(pos) : pos \in DOMAIN d} |-> d[int(key)]]

\* JsonStorageWriter.write_bit_vector filing DELETION under mutations as well
json_write_bit_vector_shared(bit_vector, reads) ==
    [target |-> "json",
     data |-> [rname |-> reads[1].rname,
               mapq1 |-> reads[1].mapq,
               mapq2 |-> IF Len(reads) > 1 THEN reads[2].mapq ELSE 0,
               len1 |-> Len(reads[1].seq),
               len2 |-> IF Len(reads) > 1 THEN Len(reads[2].seq) ELSE 0,
               muts |-> json_object(Entries(bit_vector, Bases \cup {del_bit})),
               dels |-> json_object(Entries(bit_vector, {del_bit})),
               ambigs |-> json_object(Entries(bit_vector, {ambig_info}))]]

\* JsonStorageWriter.write_bit_vector: the last element of the array in
\* muts.json
json_write_bit_vector(bit_vector, reads) ==
    [target |-> "json",
     data |-> [rname |-> reads[1].rname,
               mapq1 |-> reads[1].mapq,
               mapq2 |-> IF Len(reads) > 1 THEN reads[2].mapq ELSE 0,
               len1 |-> Len(reads[1].seq),
               len2 |-> IF Len(reads) > 1 THEN Len(reads[2].seq) ELSE 0,
               muts |-> json_object(Entries(bit_vector, Bases)),
               dels |-> json_object(Entries(bit_vector, {del_bit})),
               ambigs |-> json_object(Entries(bit_vector, {ambig_info}))]]

\* one line of parse_text_bitvector_file: the metadata and the records
\* after the line
ParseLine(acc, raw) ==
    LET line == strip(raw)
        parts == split(line, "\t")
    IN  IF startswith(line, <<"@", "r", "e", "f">>)
           THEN IF Len(parts) >= 4
                   THEN [acc EXCEPT !.metadata =
                            [name |-> parts[2], sequence |-> parts[3],
                             data_type |-> parts[4]] @@ @]
                   ELSE acc
        ELSE IF startswith(line, <<"@", "c", "o", "o", "r", "d", "i", "n", "a",
                                   "t", "e", "s", ":">>)
           THEN LET fields == split(parts[2], ":")
                    coords == split(fields[1], ",")
                IN  [acc EXCEPT !.metadata =
                        [start |-> int(coords[1]), end |-> int(coords[2]),
                         length |-> int(fields[2])] @@ @]
        ELSE IF startswith(line, <<"Q", "u", "e", "r", "y", "_", "n", "a", "m", "e">>)
           THEN acc
        ELSE IF Len(parts) >= 3
           THEN [acc EXCEPT !.records =
                    Append(@, [qname |-> parts[1], bit_vector |-> parts[2],
                               n_mutations |-> int(parts[3])])]
        ELSE acc

\* parse_text_bitvector_file: the lines of the file in order
RECURSIVE ParseLines(_, _)
ParseLines(acc, lines) ==
    IF lines = <<>> THEN acc
    ELSE ParseLines(ParseLine(acc, Head(lines)), Tail(lines))

parse_text_bitvector_file(file) ==
    ParseLines([metadata |-> <<>>, records |-> <<>>], file.lines)

\* the bit vector convert_text_to_json rebuilds from a bit string:
\* enumerate(bit_string, start=start), leaving out "."
text_to_bit_vector(bit_string, start) ==
    LET keys == {start + k - 1 : k \in {j \in DOMAIN bit_string : bit_string[j] # "."}}
    IN  [i \in keys |-> bit_string[i - start + 1]]

\* one dict assigned over another
Overlay(d, e) ==
    [pos \in (DOMAIN d) \cup (DOMAIN e) |-> IF pos \in DOMAIN e THEN e[pos] ELSE d[pos]]

\* the keys of a JSON object read back with int(pos), each with value bit
\* (the value stored when bit is "")
FromObject(object, bit) ==
    [pos \in {int(key) : key \in DOMAIN object} |->
        IF bit = "" THEN object[str(pos)] ELSE bit]

\* the bit vector convert_json_to_text rebuilds from a record: mutations,
\* then deletions, then ambiguous positions
json_to_bit_vector(record) ==
    Overlay(Overlay(FromObject(record.muts, ""), FromObject(record.dels, del_bit)),
            FromObject(record.ambigs, ambig_info))

\* the dummy read the conversion tool hands to the writers
DummyRead(rname, mapq) == [rname |-> rname, mapq |-> mapq, seq |-> <<>>]

\* __write_rejected_bit_vector: the line appended to the rejected file
write_rejected_bit_vector(mh, bit_vector, reason) ==
    LET read1 == bit_vector.reads[1]
        read2_seq == IF Len(bit_vector.reads) = 2 THEN bit_vector.reads[2].seq
                     ELSE <<>>
        bv_vec == [k \in 1..(mh.end - mh.start + 1) |->
                      IF mh.start + k - 1 \in DOMAIN bit_vector.data
                         THEN bit_vector.data[mh.start + k - 1] ELSE "."]
    IN  [target |-> "rejected",
         line |-> <<read1.qname, read1.rname, reason, read1.seq, read2_seq, bv_vec>>]

\* what __record_bit_vector writes: the rejected line of the first check
\* that returns, else the accepted bit vector through the writer of the
\* storage format (the text writer of the reference covers its whole
\* sequence), nothing when only the summary is asked for
record_output(mh, bit_vector, prm, last) ==
    LET d == Decision(mh, bit_vector, prm)
        storage_format == IF "storage_format" \in DOMAIN prm
                             THEN prm.storage_format ELSE "text"
    IN  IF d # "accepted" THEN write_rejected_bit_vector(mh, bit_vector, d)
        ELSE IF prm.summary_output_only THEN last
        ELSE IF storage_format = "json"
                THEN json_write_bit_vector(bit_vector.data, bit_vector.reads)
        ELSE text_write_bit_vector(
                 TextStorageWriter(mh.name, mh.sequence, "DMS", 1, Len(mh.sequence)),
                 Chars(bit_vector.reads[1].qname), bit_vector.data)

----------------------------------------------------------------------------
(* Inputs: one reference, the reads aligned to it, the configuration        *)

RefName == "ref"

RefSeq == <<"C", "A", "G", "G">>

\* BitVectorIterator's defaults, which BitVectorGenerator.run leaves in force
qscore_cutoff == 25

num_of_surbases == 10

\* BitVectorConfig.map_score_cutoff
map_score_cutoff == 15

IteratorConfig ==
    [ref_seq |-> RefSeq,
     qscore_cutoff |-> qscore_cutoff,
     num_of_surbases |-> num_of_surbases]

\* a base call: <<read base, quality character>>.  ";" decodes above the
\* cutoff, ":" to the cutoff itself
ReadBases == Bases \cup {"N"}

BaseCalls == {<<b, ";">> : b \in ReadBases} \cup {<<"A", ":">>}

Cigars ==
    {<<"1", "M">>, <<"2", "M">>, <<"3", "M">>,
     <<"1", "M", "1", "D", "1", "M">>, <<"1", "M", "1", "D", "2", "M">>,
     <<"2", "M", "1", "D", "1", "M">>, <<"1", "M", "2", "D", "1", "M">>,
     <<"1", "M", "1", "I", "1", "M">>,
     <<"1", "S", "2", "M">>, <<"2", "M", "1", "S">>, <<"1", "M", "2", "S">>,
     <<"1", "S">>,
     <<"2", "M", "1", "H">>, <<"1", "H", "2", "M">>}

RECURSIVE SpanOf(_, _)
\* total length of the operations of cigar_ops whose letter is in descs
SpanOf(cigar_ops, descs) ==
    IF cigar_ops = <<>> THEN 0
    ELSE (IF Head(cigar_ops).desc \in descs THEN Head(cigar_ops).length ELSE 0)
            + SpanOf(Tail(cigar_ops), descs)

AlignedRead(pos, mapq, cigar, calls) ==
    [qname |-> "read",
     rname |-> RefName,
     pos |-> pos,
     mapq |-> mapq,
     cigar |-> cigar,
     seq |-> [k \in 1..Len(calls) |-> calls[k][1]],
     qual |-> [k \in 1..Len(calls) |-> calls[k][2]]]

\* the reads of one CIGAR string the aligner can report against RefSeq: the
\* aligned span lies inside the reference, and SEQ and QUAL have the length
\* the CIGAR string consumes
ReadsOf(cigar, mapqs, calls) ==
    LET cigar_ops == parse_cigar(cigar)
        n == SpanOf(cigar_ops, {"M", "I", "S"})
        span == SpanOf(cigar_ops, {"M", "D"})
    IN  {AlignedRead(pos, mapq, cigar, c) :
            pos \in 1..(Len(RefSeq) - span + 1), mapq \in mapqs,
            c \in [1..n -> calls]}

Mapqs == {map_score_cutoff - 1, map_score_cutoff}

SingleReads == UNION {ReadsOf(cigar, Mapqs, BaseCalls) : cigar \in Cigars}

\* mates of a pair: one-base matches, which meet in every pair of symbols a
\* match produces
MateReads == ReadsOf(<<"1", "M">>, Mapqs, BaseCalls)

SamItems ==
    {<<r>> : r \in SingleReads} \cup {<<r1, r2>> : r1 \in MateReads, r2 \in MateReads}

\* the generator's parameter dictionary; a read shorter than half the
\* reference is a short read
Params(stricter, distance, count) ==
    [stricter_bv_constraints |-> stricter,
     map_score_cutoff |-> map_score_cutoff,
     min_mut_distance |-> distance,
     percent_length_cutoff |-> 50,
     mutation_count_cutoff |-> count,
     summary_output_only |-> FALSE]

\* stricter constraints off, or on with a minimal mutation distance of 1 or
\* 2 and at most 2 mutations, or on with no mutation allowed
ParamChoices ==
    {Params(FALSE, 1, 2), Params(TRUE, 1, 2), Params(TRUE, 2, 2), Params(TRUE, 2, 0)}

----------------------------------------------------------------------------
(* The run: workers that each convert and record the reads of their chunk   *)
(* into a histogram of their own, and merges of those histograms            *)

\* number of SAM items a run reads
MaxReads == 3

Workers == {1, 2, 3}

NoBitVector == [reads |-> <<>>, data |-> EmptyMap]

\* _initialize_mutation_histograms: one histogram per reference, over the
\* whole sequence
FreshHistogram == MutationHistogram(RefName, RefSeq, "DMS", 1, Len(RefSeq))

\* the owners whose histogram has not been merged into another one
Live == {w \in DOMAIN histos : absorbed[w] # {}}

\* the SAM iterator yields the next read or pair
ReadNext(reads) ==
    /\ item = <<>>
    /\ nreads < MaxReads
    /\ item' = reads
    /\ nreads' = nreads + 1
    /\ UNCHANGED <<histos, whole, absorbed, bitvec, op, pre, params, conv,
                   written, sam, dicts>>

\* one iteration of _process_all_bit_vectors in worker w: the iterator
\* converts the item against the reference it is aligned to, the generator
\* filters and records the bit vector
ProcessItem(w) ==
    /\ item # <<>>
    /\ w \in Live
    /\ item[1].rname = histos[w].name
    /\ LET cfg == [ref_seq |-> histos[w].sequence,
                   qscore_cutoff |-> qscore_cutoff,
                   num_of_surbases |-> num_of_surbases]
           bv == NextBitVector(item, cfg)
       IN  /\ bitvec' = bv
           /\ histos' = [histos EXCEPT ![w] = record_bit_vector(@, bv, params)]
           /\ whole' = record_bit_vector(whole, bv, params)
           /\ op' = [kind |-> "record", a |-> w, b |-> w,
                     outcome |-> Decision(histos[w], bv, params)]
           /\ written' = record_output(histos[w], bv, params, written)
    /\ pre' = histos
    /\ item' = <<>>
    /\ UNCHANGED <<absorbed, params, nreads, conv, sam, dicts>>

\* histos[a].merge(histos[b])
MergeHistos(a, b) ==
    /\ item = <<>>
    /\ a \in Live /\ b \in Live /\ a # b
    /\ histos' = [histos EXCEPT ![a] = merge(@, histos[b])]
    /\ op' = [kind |-> "merge", a |-> a, b |-> b,
              outcome |-> IF MergeMismatch(histos[a], histos[b])
                             THEN "ValueError" ELSE "merged"]
    /\ absorbed' = IF MergeMismatch(histos[a], histos[b]) THEN absorbed
                   ELSE [absorbed EXCEPT ![a] = @ \cup absorbed[b], ![b] = {}]
    /\ pre' = histos
    /\ UNCHANGED <<whole, item, bitvec, params, nreads, conv, written, sam, dicts>>

NoOp == [kind |-> "init", a |-> 0, b |-> 0, outcome |-> "none"]

\* no conversion is followed
NoFrame == [status |-> "none"]

\* the reads come from elsewhere than a paired SAM file
NoSam == [backend |-> "none"]

\* no dictionaries are followed
NoDicts == [mut_histos |-> <<>>]

(* Converter, filter and aggregator on every read: one worker, one item     *)

\* a histogram that has already recorded one accepted read (symbols 0, 1, T
\* and ?) and one read of low mapping quality
WarmReads ==
    <<AlignedRead(1, map_score_cutoff, <<"1", "M", "1", "D", "2", "M">>,
                  <<<<"C", ";">>, <<"T", ";">>, <<"A", ":">>>>),
      AlignedRead(1, map_score_cutoff - 1, <<"3", "M">>,
                  <<<<"C", ";">>, <<"A", ";">>, <<"G", ";">>>>)>>

WarmHistogram ==
    record_bit_vector(
        record_bit_vector(FreshHistogram,
                          NextBitVector(<<WarmReads[1]>>, IteratorConfig),
                          Params(TRUE, 2, 2)),
        NextBitVector(<<WarmReads[2]>>, IteratorConfig), Params(TRUE, 2, 2))

InitCore ==
    /\ \E h \in {FreshHistogram, WarmHistogram} :
          /\ histos = [w \in {1} |-> h]
          /\ whole = h
    /\ absorbed = [w \in {1} |-> {1}]
    /\ item \in SamItems
    /\ bitvec = NoBitVector
    /\ op = NoOp
    /\ pre = histos
    /\ params \in ParamChoices
    /\ nreads = 1
    /\ conv = NoFrame
    /\ written = NoRecord
    /\ sam = NoSam
    /\ dicts = NoDicts

NextCore == \E w \in DOMAIN histos : ProcessItem(w)

SpecCore == InitCore /\ [][NextCore]_vars

----------------------------------------------------------------------------
(* Claims on the converter, the filter and the aggregator (SpecCore)        *)

\* the histogram the last operation acted on, before and after
Before == pre[op.a]

After == histos[op.a]

Recorded == op.kind = "record"

Rejected == Recorded /\ op.outcome \in SkipReasons

Accepted == Recorded /\ op.outcome = "accepted"

Indicator(cond) == IF cond THEN 1 ELSE 0

\* C5: rejecting a bit vector adds one to num_reads and one to the skip
\* counter of its reason, and changes no other counter and no array
C5_SkipFrame ==
    Rejected =>
        /\ After.num_reads = Before.num_reads + 1
        /\ \A k \in SkipReasons :
              After.skips[k] = Before.skips[k] + Indicator(k = op.outcome)
        /\ After.num_aligned = Before.num_aligned
        /\ After.num_of_mutations = Before.num_of_mutations
        /\ After.cov_bases = Before.cov_bases
        /\ After.mut_bases = Before.mut_bases
        /\ After.del_bases = Before.del_bases
        /\ After.info_bases = Before.info_bases
        /\ After.mod_bases = Before.mod_bases

C5_Witness ==
    /\ Rejected
    /\ op.outcome = "muts_too_close"
    /\ Before.num_aligned > 0
    /\ \E p \in DOMAIN bitvec.data : bitvec.data[p] = del_bit

\* what the rules of the filter say of the last bit vector
AnyLowMapq ==
    \E r \in DOMAIN bitvec.reads : bitvec.reads[r].mapq < params.map_score_cutoff

AnyShortRead ==
    \E r \in DOMAIN bitvec.reads :
        Len(bitvec.reads[r].seq) * 100
            < params.percent_length_cutoff * Len(Before.sequence)

MutPositions ==
    {p \in Before.start .. Before.end :
        p \in DOMAIN bitvec.data /\ bitvec.data[p] \in Bases}

\* the one counter the last record operation added to
CountedAs ==
    {k \in SkipReasons : After.skips[k] = Before.skips[k] + 1}
        \cup (IF After.num_aligned = Before.num_aligned + 1
                 THEN {"accepted"} ELSE {})

\* C6: the decision is the first matching rule in the order low_mapq,
\* short_read, too_many_muts, muts_too_close; low_mapq applies with or
\* without stricter constraints, the others only with them; the vector is
\* counted under exactly one reason, or accepted
C6_FirstMatchWins ==
    Recorded =>
        /\ CountedAs = {op.outcome}
        /\ IF AnyLowMapq THEN op.outcome = "low_mapq"
           ELSE IF ~params.stricter_bv_constraints THEN op.outcome = "accepted"
           ELSE IF AnyShortRead THEN op.outcome = "short_read"
           ELSE IF Cardinality(MutPositions) > params.mutation_count_cutoff
                THEN op.outcome = "too_many_muts"
           ELSE op.outcome \in {"muts_too_close", "accepted"}

\* a short read with too many mutations, counted as a short read
C6_Witness ==
    /\ Recorded
    /\ params.stricter_bv_constraints
    /\ ~AnyLowMapq
    /\ AnyShortRead
    /\ Cardinality(MutPositions) > params.mutation_count_cutoff
    /\ op.outcome = "short_read"

PassesEarlierRules ==
    /\ Recorded
    /\ params.stricter_bv_constraints
    /\ ~AnyLowMapq
    /\ ~AnyShortRead
    /\ Cardinality(MutPositions) <= params.mutation_count_cutoff

\* C7: with stricter constraints, a vector that passes the earlier rules is
\* rejected as muts_too_close exactly when two of its mutation calls are
\* less than min_mut_distance apart
C7_TooCloseIffStrictlyWithin ==
    PassesEarlierRules =>
        (op.outcome = "muts_too_close"
            <=> \E p \in MutPositions, q \in MutPositions :
                    p < q /\ q - p < params.min_mut_distance)

\* C8: recording an accepted vector adds one to num_reads and num_aligned
\* and, at each position of the window that has a symbol s, one to
\* info_bases, one to cov_bases unless s is AMBIGUOUS, one to mut_bases and
\* mod_bases[s] when s is a base letter, one to del_bases when s is
\* DELETION; nothing else changes in these arrays
C8_RecordAccepted ==
    Accepted =>
        /\ After.num_reads = Before.num_reads + 1
        /\ After.num_aligned = Before.num_aligned + 1
        /\ \A p \in DOMAIN Before.info_bases :
              LET has == /\ p \in Before.start .. Before.end
                         /\ p \in DOMAIN bitvec.data
                  s == bitvec.data[p]
              IN  /\ After.info_bases[p] = Before.info_bases[p] + Indicator(has)
                  /\ After.cov_bases[p] =
                        Before.cov_bases[p] + Indicator(has /\ s # ambig_info)
                  /\ After.mut_bases[p] =
                        Before.mut_bases[p] + Indicator(has /\ s \in Bases)
                  /\ \A b \in Bases :
                        After.mod_bases[b][p] =
                            Before.mod_bases[b][p] + Indicator(has /\ s = b)
                  /\ After.del_bases[p] =
                        Before.del_bases[p] + Indicator(has /\ s = del_bit)

C8_Witness ==
    /\ Accepted
    /\ Before.num_aligned > 0
    /\ \E p \in DOMAIN bitvec.data : bitvec.data[p] = ambig_info
    /\ \E p \in DOMAIN bitvec.data : bitvec.data[p] = del_bit
    /\ \E p \in DOMAIN bitvec.data : bitvec.data[p] \in Bases

\* C10: every symbol of a map the converter or the paired-read merger
\* produces is one of the eight symbols of the alphabet
C10_SymbolsInAlphabet ==
    \A p \in DOMAIN bitvec.data : bitvec.data[p] \in Alphabet

\* C16: a read or pair whose bit vector is the empty map is rejected by the
\* aggregation step: it is not accepted, and num_aligned, the buckets of
\* num_of_mutations and the position-indexed arrays stay as they were
C16_EmptyMapRejected ==
    (Recorded /\ bitvec.data = EmptyMap) =>
        /\ op.outcome # "accepted"
        /\ After.num_aligned = Before.num_aligned
        /\ After.num_of_mutations = Before.num_of_mutations
        /\ After.cov_bases = Before.cov_bases
        /\ After.mut_bases = Before.mut_bases
        /\ After.del_bases = Before.del_bases
        /\ After.info_bases = Before.info_bases
        /\ After.mod_bases = Before.mod_bases

----------------------------------------------------------------------------
(* Chunked runs: three workers, a few reads, merges in any order            *)

\* reads of a chunked run: accepted with one mutation, a deletion and an
\* ambiguous base; accepted with two mutations; of low mapping quality;
\* with two adjacent mutations
ChunkItems ==
    {<<WarmReads[1]>>,
     <<AlignedRead(1, map_score_cutoff, <<"3", "M">>,
                   <<<<"T", ";">>, <<"A", ";">>, <<"T", ";">>>>)>>,
     <<WarmReads[2]>>,
     <<AlignedRead(1, map_score_cutoff, <<"2", "M">>,
                   <<<<"T", ";">>, <<"T", ";">>>>)>>}

NextRun ==
    \/ \E reads \in ChunkItems : ReadNext(reads)
    \/ \E w \in DOMAIN histos : ProcessItem(w)
    \/ \E a \in DOMAIN histos, b \in DOMAIN histos : MergeHistos(a, b)

InitMerge ==
    /\ histos = [w \in Workers |-> FreshHistogram]
    /\ whole = FreshHistogram
    /\ absorbed = [w \in Workers |-> {w}]
    /\ item = <<>>
    /\ bitvec = NoBitVector
    /\ op = NoOp
    /\ pre = histos
    /\ params = Params(TRUE, 1, 2)
    /\ nreads = 0
    /\ conv = NoFrame
    /\ written = NoRecord
    /\ sam = NoSam
    /\ dicts = NoDicts

SpecMerge == InitMerge /\ [][NextRun]_vars

(* Histograms of different identity: the second histogram is constructed    *)
(* with any combination of equal and different identity fields              *)

AltSeq == <<"C", "A", "G", "T">>

OtherHistograms ==
    {[MutationHistogram(name, sequence, data_type, start, end)
         EXCEPT !.structure = structure] :
        name \in {RefName, "ref2"}, sequence \in {RefSeq, AltSeq},
        data_type \in {"DMS", "SHAPE"}, start \in {1, 2},
        end \in {Len(RefSeq) - 1, Len(RefSeq)},
        structure \in {NoStructure, "(..)"}}

InitIdent ==
    /\ \E other \in OtherHistograms :
          histos = [w \in {1, 2} |-> IF w = 1 THEN FreshHistogram ELSE other]
    /\ whole = FreshHistogram
    /\ absorbed = [w \in {1, 2} |-> {w}]
    /\ item = <<>>
    /\ bitvec = NoBitVector
    /\ op = NoOp
    /\ pre = histos
    /\ params = Params(TRUE, 1, 2)
    /\ nreads = 0
    /\ conv = NoFrame
    /\ written = NoRecord
    /\ sam = NoSam
    /\ dicts = NoDicts

SpecIdent == InitIdent /\ [][NextRun]_vars

----------------------------------------------------------------------------
(* Claims on merge (SpecMerge, SpecIdent)                                   *)

Merged == op.kind = "merge" /\ op.outcome = "merged"

MergeFailed == op.kind = "merge" /\ op.outcome = "ValueError"

\* the counters and arrays of a histogram
Counters(h) ==
    [num_reads |-> h.num_reads,
     num_aligned |-> h.num_aligned,
     skips |-> h.skips,
     num_of_mutations |-> h.num_of_mutations,
     cov_bases |-> h.cov_bases,
     mut_bases |-> h.mut_bases,
     del_bases |-> h.del_bases,
     ins_bases |-> h.ins_bases,
     info_bases |-> h.info_bases,
     mod_bases |-> h.mod_bases]

Identity(h) == <<h.name, h.sequence, h.data_type, h.start, h.end, h.structure>>

SumOfArrays(x, y) == [p \in DOMAIN x |-> x[p] + y[p]]

\* C1: after a successful a.merge(b), every counter and every element of
\* every array of a is the sum of the values a and b had before
C1_MergeSumsEverything ==
    Merged =>
        LET x == pre[op.a]
            y == pre[op.b]
        IN  /\ After.num_reads = x.num_reads + y.num_reads
            /\ After.num_aligned = x.num_aligned + y.num_aligned
            /\ After.skips = SumOfArrays(x.skips, y.skips)
            /\ After.num_of_mutations =
                  SumOfArrays(x.num_of_mutations, y.num_of_mutations)
            /\ After.cov_bases = SumOfArrays(x.cov_bases, y.cov_bases)
            /\ After.mut_bases = SumOfArrays(x.mut_bases, y.mut_bases)
            /\ After.del_bases = SumOfArrays(x.del_bases, y.del_bases)
            /\ After.ins_bases = SumOfArrays(x.ins_bases, y.ins_bases)
            /\ After.info_bases = SumOfArrays(x.info_bases, y.info_bases)
            /\ \A k \in Bases :
                  After.mod_bases[k] = SumOfArrays(x.mod_bases[k], y.mod_bases[k])

\* C2: for three histograms of equal identity, the merge orders
\* merge(merge(a,b),c), merge(a,merge(b,c)) and merge(b,merge(a,c)) give
\* equal counters and arrays
C2_MergeAssocComm ==
    \A a \in Live, b \in Live, c \in Live :
        ( /\ a # b /\ a # c /\ b # c
          /\ Identity(histos[a]) = Identity(histos[b])
          /\ Identity(histos[a]) = Identity(histos[c]) ) =>
            LET ab_c == merge(merge(histos[a], histos[b]), histos[c])
                a_bc == merge(histos[a], merge(histos[b], histos[c]))
                b_ac == merge(histos[b], merge(histos[a], histos[c]))
            IN  /\ Counters(ab_c) = Counters(a_bc)
                /\ Counters(a_bc) = Counters(b_ac)

\* C3: once the histograms of all chunks are merged into one, it equals, on
\* every counter and array, the single histogram that recorded every read
C3_ChunksMergeToWhole ==
    \A a \in DOMAIN histos :
        (absorbed[a] = DOMAIN histos /\ item = <<>>) =>
            Counters(histos[a]) = Counters(whole)

\* C4: merge fails exactly when the two histograms differ in an identity
\* field, and a failed merge changes no histogram
C4_MergeFailsIffIdentityDiffers ==
    op.kind = "merge" =>
        /\ MergeFailed <=> Identity(pre[op.a]) # Identity(pre[op.b])
        /\ MergeFailed => histos = pre

\* a failed merge of two histograms that differ only in structure, the
\* target holding counts
C4_Witness ==
    /\ MergeFailed
    /\ pre[op.a].structure # pre[op.b].structure
    /\ pre[op.a].name = pre[op.b].name
    /\ pre[op.a].sequence = pre[op.b].sequence
    /\ pre[op.a].start = pre[op.b].start
    /\ pre[op.a].end = pre[op.b].end
    /\ pre[op.a].data_type = pre[op.b].data_type
    /\ pre[op.a].num_aligned > 0
    /\ pre[op.b].num_aligned > 0

RECURSIVE SumUpTo(_, _)
\* f[0] + ... + f[n]
SumUpTo(f, n) == IF n < 0 THEN 0 ELSE f[n] + SumUpTo(f, n - 1)

BucketSum(h) == SumUpTo(h.num_of_mutations, Len(h.sequence))

\* C9: an accepted vector adds one to exactly the bucket of its number of
\* mutation calls in the window, which is an index of num_of_mutations; in
\* every histogram the buckets sum to num_aligned
C9_BucketsSumToAligned ==
    /\ \A w \in DOMAIN histos : BucketSum(histos[w]) = histos[w].num_aligned
    /\ Accepted =>
          /\ Cardinality(MutPositions) \in DOMAIN Before.num_of_mutations
          /\ \A n \in DOMAIN Before.num_of_mutations :
                After.num_of_mutations[n] =
                    Before.num_of_mutations[n]
                        + Indicator(n = Cardinality(MutPositions))

\* a merged histogram that holds reads of one and of two mutations
C9_Witness ==
    /\ Merged
    /\ After.num_of_mutations[1] > 0
    /\ After.num_of_mutations[2] > 0
    /\ After.skips["low_mapq"] > 0

----------------------------------------------------------------------------
(* The converter, one CIGAR operation at a time: an iterator constructed    *)
(* with any quality cutoff and window, on three references                  *)

\* RefSeq, a reference that starts with a run of one base, one that ends
\* with one
ConvRefs == {RefSeq, <<"A", "A", "A", "C">>, <<"C", "T", "T", "T">>}

\* quality cutoffs and window sizes of the iterator: the defaults and
\* smaller ones
ConvCutoffs == {qscore_cutoff - 5, qscore_cutoff}

ConvWindows == {1, 2, num_of_surbases}

\* base calls above, at and below the cutoffs
ConvCalls == {<<"A", ";">>, <<"T", ";">>, <<"G", ":">>, <<"C", "5">>}

\* reads of a CIGAR string that consumes n read bases and span reference
\* bases
ReadsShaped(cigar, n, span, calls) ==
    {AlignedRead(pos, map_score_cutoff, cigar, c) :
        pos \in 1..(Len(RefSeq) - span + 1), c \in [1..n -> calls]}

\* reads whose CIGAR strings hold the other operations of the SAM format:
\* =, X (one read base, one reference base), N (one reference base), P, H
OtherOpReads ==
    ReadsShaped(<<"1", "M", "1", "=", "1", "M">>, 3, 3, ConvCalls)
        \cup ReadsShaped(<<"1", "M", "1", "X", "1", "M">>, 3, 3, ConvCalls)
        \cup ReadsShaped(<<"1", "M", "1", "N", "1", "M">>, 2, 3, ConvCalls)
        \cup ReadsShaped(<<"1", "M", "1", "P", "1", "M">>, 2, 2, ConvCalls)
        \cup ReadsShaped(<<"1", "S", "1", "M", "1", "S">>, 3, 2, ConvCalls)
        \cup ReadsShaped(<<"2", "S">>, 2, 2, ConvCalls)

ConvReads ==
    UNION {ReadsOf(cigar, {map_score_cutoff}, ConvCalls) : cigar \in Cigars}
        \cup OtherOpReads

\* the frame at the entry of __convert_read_to_bit_vector(read, ref_seq)
NewFrame(read, cfg) ==
    [status |-> "running",
     read |-> read,
     cfg |-> cfg,
     cigar_ops |-> parse_cigar(read.cigar),
     op_index |-> 0,
     st |-> [bv |-> EmptyMap, i |-> read.pos, j |-> 0],
     prev |-> [bv |-> EmptyMap, i |-> read.pos, j |-> 0]]

\* one pass of the while loop: the operation at op_index is applied, or an
\* unknown operation makes the call return {}
ConvertOperation ==
    /\ conv.status = "running"
    /\ conv.op_index < Len(conv.cigar_ops)
    /\ LET o == conv.cigar_ops[conv.op_index + 1]
           st == conv.st
           read == conv.read
           cfg == conv.cfg
       IN  IF o.desc \in {"M", "D", "I", "S"}
              THEN /\ conv' =
                        [conv EXCEPT
                            !.prev = st,
                            !.op_index = @ + 1,
                            !.st =
                               CASE o.desc = "M" ->
                                      process_match_operation(
                                          st, read.seq, read.qual, cfg.ref_seq,
                                          o.length, cfg.qscore_cutoff)
                                 [] o.desc = "D" ->
                                      process_deletion_operation(
                                          st, cfg.ref_seq, o.length,
                                          cfg.num_of_surbases)
                                 [] o.desc = "I" -> [st EXCEPT !.j = @ + o.length]
                                 [] o.desc = "S" ->
                                      process_soft_clip_operation(
                                          st, o.length, conv.op_index,
                                          Len(conv.cigar_ops))]
                   /\ UNCHANGED bitvec
              ELSE /\ conv' = [conv EXCEPT !.status = "returned"]
                   /\ bitvec' = [reads |-> <<read>>, data |-> EmptyMap]
    /\ UNCHANGED <<histos, whole, absorbed, item, op, pre, params, nreads,
                   written, sam, dicts>>

\* the loop ends: return bitvector
ConvertReturn ==
    /\ conv.status = "running"
    /\ conv.op_index >= Len(conv.cigar_ops)
    /\ conv' = [conv EXCEPT !.status = "returned"]
    /\ bitvec' = [reads |-> <<conv.read>>, data |-> conv.st.bv]
    /\ UNCHANGED <<histos, whole, absorbed, item, op, pre, params, nreads,
                   written, sam, dicts>>

InitConvert ==
    /\ histos = [w \in {1} |-> FreshHistogram]
    /\ whole = FreshHistogram
    /\ absorbed = [w \in {1} |-> {1}]
    /\ item = <<>>
    /\ bitvec = NoBitVector
    /\ op = NoOp
    /\ pre = histos
    /\ params = Params(FALSE, 1, 2)
    /\ nreads = 0
    /\ written = NoRecord
    /\ sam = NoSam
    /\ dicts = NoDicts
    /\ \E read \in ConvReads, ref_seq \in ConvRefs,
          c \in ConvCutoffs, w \in ConvWindows :
          conv = NewFrame(read, [ref_seq |-> ref_seq, qscore_cutoff |-> c,
                                 num_of_surbases |-> w])

NextConvert == ConvertOperation \/ ConvertReturn

SpecConvert == InitConvert /\ [][NextConvert]_vars

\* the call followed step by step returns what the converter returns
ConvertAgrees ==
    conv.status = "returned" =>
        bitvec.data = convert_read_to_bit_vector(conv.read, conv.cfg)

----------------------------------------------------------------------------
(* Claims on the operations of the converter (SpecConvert)                  *)

\* the last pass of the loop applied an operation of this letter; conv.prev
\* and conv.st are the cursors and the map before and after it
Stepped(desc) ==
    /\ conv.status # "none"
    /\ conv.op_index > 0
    /\ conv.cigar_ops[conv.op_index].desc = desc

LastLength == conv.cigar_ops[conv.op_index].length

C13_DeletionOperation ==
    Stepped("D") =>
        LET i == conv.prev.i
            last == conv.prev.i + LastLength - 1
        IN  /\ \A p \in i..(last - 1) :
                  p \in DOMAIN conv.st.bv /\ conv.st.bv[p] = ambig_info
            /\ last \in DOMAIN conv.st.bv
            /\ conv.st.bv[last] =
                  IF calc_ambig_reads(conv.cfg.ref_seq, last, LastLength,
                                      conv.cfg.num_of_surbases)
                      THEN ambig_info ELSE del_bit
            /\ conv.st.i = i + LastLength
            /\ conv.st.j = conv.prev.j

\* a deletion of two bases whose last position is emitted as DELETION
C13_Witness ==
    /\ Stepped("D")
    /\ LastLength = 2
    /\ conv.st.bv[conv.prev.i] = ambig_info
    /\ conv.st.bv[conv.prev.i + 1] = del_bit

\* the last operation wrote MISSING at the next LastLength reference
\* positions and moved the reference cursor past them
ClipEmitted ==
    /\ conv.st.i = conv.prev.i + LastLength
    /\ \A p \in conv.prev.i .. (conv.prev.i + LastLength - 1) :
          p \in DOMAIN conv.st.bv /\ conv.st.bv[p] = miss_info

\* the last operation wrote nothing and left the reference cursor
ClipSilent ==
    /\ conv.st.i = conv.prev.i
    /\ conv.st.bv = conv.prev.bv

\* C14: an S operation of length L advances the read cursor by L; it writes
\* MISSING at the next L reference positions and advances the reference
\* cursor by L if and only if it is the last operation; a soft clip that is
\* the first operation writes nothing and leaves the reference cursor, also
\* when it is the only operation
C14_SoftClipOperation ==
    Stepped("S") =>
        /\ conv.st.j = conv.prev.j + LastLength
        /\ IF conv.op_index = Len(conv.cigar_ops) THEN ClipEmitted ELSE ClipSilent
        /\ conv.op_index = 1 => ClipSilent

\* the CIGAR string holds an operation character other than M, D, I and S
HasOtherOperation(cigar) ==
    \E k \in 1..Len(cigar) : cigar[k] \notin Digits \cup {"M", "D", "I", "S"}

\* C15: the converter returns the empty map for every read whose CIGAR
\* string holds an operation other than M, D, I and S, wherever it stands
\* and whatever its character
C15_UnknownOperationEmpties ==
    (conv.status = "returned" /\ HasOtherOperation(conv.read.cigar)) =>
        bitvec.data = EmptyMap

\* the reference positions s..e lie inside a longer run of one base
InsideRun(ref_seq, s, e) ==
    /\ \A p \in s..e : ref_seq[p] = ref_seq[s]
    /\ \/ s > 1 /\ ref_seq[s - 1] = ref_seq[s]
       \/ e < Len(ref_seq) /\ ref_seq[e + 1] = ref_seq[s]

\* the last position of the deletion the last operation made
DeletionEnd == conv.prev.i + LastLength - 1

\* C17: a deletion whose span lies inside a longer run of one base is
\* reported ambiguous by the resolver, and its last position is emitted as
\* AMBIGUOUS, wherever the deletion lies in the reference
C17_RunDeletionAmbiguous ==
    (Stepped("D") /\ InsideRun(conv.cfg.ref_seq, conv.prev.i, DeletionEnd)) =>
        /\ calc_ambig_reads(conv.cfg.ref_seq, DeletionEnd, LastLength,
                            conv.cfg.num_of_surbases)
        /\ conv.st.bv[DeletionEnd] = ambig_info

\* C18: when the resolver, called for the deletion of length L ending at i,
\* finds the deletion ending at i2 (0 < |i - i2| <= L, inside the reference)
\* to have the signature of the original, the resolver called for the
\* deletion ending at i2 returns true
C18_ResolverSymmetric ==
    Stepped("D") =>
        \A i2 \in (DeletionEnd - LastLength) .. (DeletionEnd + LastLength) :
            ( /\ i2 # DeletionEnd
              /\ i2 - LastLength + 1 >= 1
              /\ i2 <= Len(conv.cfg.ref_seq)
              /\ sur_seq(conv.cfg.ref_seq, DeletionEnd, LastLength,
                         conv.cfg.num_of_surbases, i2)
                    = sur_seq(conv.cfg.ref_seq, DeletionEnd, LastLength,
                              conv.cfg.num_of_surbases, DeletionEnd) ) =>
                calc_ambig_reads(conv.cfg.ref_seq, i2, LastLength,
                                 conv.cfg.num_of_surbases)

----------------------------------------------------------------------------
(* generate_bit_vectors under a configuration: the parameter dictionary     *)
(* carries the configured quality cutoff and window to the generator        *)

\* params["bit_vector"] of _generate_bit_vectors_python for a configuration
\* with quality cutoff c and window w, stricter constraints off
ConfigParams(c, w) ==
    [qscore_cutoff |-> c, num_of_surbases |-> w] @@ Params(FALSE, 1, 2)

\* configurations: the default cutoff, a lower and a higher one; the default
\* window and a smaller one
ConfigChoices ==
    {ConfigParams(c, w) :
        c \in {qscore_cutoff - 5, qscore_cutoff, qscore_cutoff + 5},
        w \in {2, num_of_surbases}}

\* base calls of quality 20, 25, 26 and 40
ConfigCalls == ConvCalls \cup {<<"A", "I">>}

ConfigItems ==
    {<<r>> : r \in ReadsOf(<<"2", "M">>, {map_score_cutoff}, ConfigCalls)
                \cup ReadsOf(<<"1", "M", "1", "D", "1", "M">>,
                             {map_score_cutoff}, ConfigCalls)}

InitConfig ==
    /\ histos = [w \in {1} |-> FreshHistogram]
    /\ whole = FreshHistogram
    /\ absorbed = [w \in {1} |-> {1}]
    /\ item \in ConfigItems
    /\ bitvec = NoBitVector
    /\ op = NoOp
    /\ pre = histos
    /\ params \in ConfigChoices
    /\ nreads = 1
    /\ conv = NoFrame
    /\ written = NoRecord
    /\ sam = NoSam
    /\ dicts = NoDicts

SpecConfig == InitConfig /\ [][NextCore]_vars

\* the converter's configuration the parameter dictionary asks for
ConfiguredIterator ==
    [ref_seq |-> Before.sequence,
     qscore_cutoff |-> params.qscore_cutoff,
     num_of_surbases |-> params.num_of_surbases]

\* C12: the bit vector generate_bit_vectors builds for a read is the one the
\* converter gives with the configured quality cutoff and the configured
\* window: a base of an M operation is AMBIGUOUS exactly when its decoded
\* quality is not greater than the configured cutoff
C12_ConfiguredCutoffApplies ==
    Recorded =>
        /\ bitvec.data = NextBitVector(bitvec.reads, ConfiguredIterator).data
        /\ LET read == bitvec.reads[1]
           IN  read.cigar = <<"2", "M">> =>
                  \A k \in 1..2 :
                      bitvec.data[read.pos + k - 1] = ambig_info
                          <=> PhredScore(read.qual[k]) <= params.qscore_cutoff

----------------------------------------------------------------------------
(* Read pairs whose mates hold every symbol: matches, a deletion, a         *)
(* trailing soft clip                                                       *)

\* base calls of the mates: a match or mismatch above the cutoff, a base at
\* the cutoff, an N
PairCalls == {<<"A", ";">>, <<"T", ";">>, <<"G", ":">>, <<"N", ";">>}

PairMates ==
    ReadsOf(<<"2", "M">>, {map_score_cutoff}, PairCalls)
        \cup ReadsOf(<<"1", "M", "1", "D", "1", "M">>, {map_score_cutoff}, PairCalls)
        \cup ReadsOf(<<"1", "M", "1", "S">>, {map_score_cutoff}, PairCalls)

\* what PairedSamIterator yields
PairItems == {<<r1, r2>> : r1 \in PairMates, r2 \in PairMates}

InitPair ==
    /\ histos = [w \in {1} |-> FreshHistogram]
    /\ whole = FreshHistogram
    /\ absorbed = [w \in {1} |-> {1}]
    /\ item \in PairItems
    /\ bitvec = NoBitVector
    /\ op = NoOp
    /\ pre = histos
    /\ params = Params(FALSE, 1, 2)
    /\ nreads = 1
    /\ conv = NoFrame
    /\ written = NoRecord
    /\ sam = NoSam
    /\ dicts = NoDicts

SpecPair == InitPair /\ [][NextCore]_vars

\* the map of mate k of the last pair
MateMap(k) ==
    convert_read_to_bit_vector(
        bitvec.reads[k],
        [ref_seq |-> Before.sequence, qscore_cutoff |-> qscore_cutoff,
         num_of_surbases |-> num_of_surbases])

\* the precedence of two different symbols s1 (mate 1) and s2 (mate 2)
Precedence(s1, s2) ==
    IF s1 = nomut_bit \/ s2 = nomut_bit THEN nomut_bit
    ELSE IF s1 = ambig_info THEN s2
    ELSE IF s2 = ambig_info THEN s1
    ELSE IF s1 = miss_info THEN s2
    ELSE IF s2 = miss_info THEN s1
    ELSE IF \/ s1 \in Bases /\ s2 \in Bases
            \/ s1 = del_bit /\ s2 \in Bases
            \/ s1 \in Bases /\ s2 = del_bit THEN ambig_info
    ELSE s1

\* C19: the merged map of a pair has the union of the mates' positions as
\* its keys; a position of one mate only carries that mate's symbol, equal
\* symbols are kept, different symbols are resolved by the precedence
\* NO_MUT, then the symbol that is not AMBIGUOUS, then the symbol that is
\* not MISSING, then AMBIGUOUS for two base letters or a base letter and
\* DELETION, then mate 1's symbol
C19_PairedMerge ==
    (Recorded /\ Len(bitvec.reads) = 2) =>
        /\ DOMAIN bitvec.data = (DOMAIN MateMap(1)) \cup (DOMAIN MateMap(2))
        /\ \A p \in DOMAIN bitvec.data :
              bitvec.data[p] =
                  IF p \notin DOMAIN MateMap(2) THEN MateMap(1)[p]
                  ELSE IF p \notin DOMAIN MateMap(1) THEN MateMap(2)[p]
                  ELSE IF MateMap(1)[p] = MateMap(2)[p] THEN MateMap(1)[p]
                  ELSE Precedence(MateMap(1)[p], MateMap(2)[p])

\* a pair with a position of mate 1 only, a position of mate 2 only, and a
\* position where a base letter meets DELETION
C19_Witness ==
    /\ Recorded
    /\ Len(bitvec.reads) = 2
    /\ \E p \in DOMAIN bitvec.data : p \notin DOMAIN MateMap(2)
    /\ \E p \in DOMAIN bitvec.data : p \notin DOMAIN MateMap(1)
    /\ \E p \in (DOMAIN MateMap(1)) \cap (DOMAIN MateMap(2)) :
          /\ MateMap(1)[p] = del_bit
          /\ MateMap(2)[p] \in Bases
          /\ bitvec.data[p] = ambig_info

----------------------------------------------------------------------------
(* Summary statistics of a histogram                                        *)

\* seq.count(x) summed over the letters
CountOf(seq, letters) == Cardinality({p \in 1..Len(seq) : seq[p] \in letters})

RECURSIVE SumOver(_, _)
\* the sum of f over a finite set of positions
SumOver(f, positions) ==
    IF positions = {} THEN 0
    ELSE LET p == CHOOSE q \in positions : TRUE
         IN  f[p] + SumOver(f, positions \ {p})

\* round(num / den, 2) in hundredths, for num >= 0 and den > 0: the nearest
\* hundredth, a tie going to the even one
Round2(num, den) ==
    LET h == (100 * num) \div den
        r == 100 * num - h * den
    IN  IF 2 * r > den THEN h + 1
        ELSE IF 2 * r = den /\ h % 2 = 1 THEN h + 1
        ELSE h

\* get_signal_to_noise: the exception it raises, or the value it returns in
\* hundredths.  AC / AC_count over GU / GU_count is
\* (AC * GU_count) / (AC_count * GU)
get_signal_to_noise(mh) ==
    LET seq == mh.sequence
        AC_count == CountOf(seq, {"A", "C"})
        GU_count == CountOf(seq, {"G", "U", "T"})
        AC == SumOver(mh.mut_bases,
                      {pos \in get_nuc_coords(mh) : seq[pos] \in {"A", "C"}})
        GU == SumOver(mh.mut_bases,
                      {pos \in get_nuc_coords(mh) : seq[pos] \notin {"A", "C"}})
    IN  IF AC_count = 0 \/ GU_count = 0
            THEN [outcome |-> "ZeroDivisionError", value |-> 0]
        ELSE IF GU = 0 THEN [outcome |-> "returned", value |-> 0]
        ELSE [outcome |-> "returned",
              value |-> Round2(AC * GU_count, AC_count * GU)]

\* a Python list of len(sequence) + 1 entries as a tuple
ListOf(f) == [k \in 1..Cardinality(DOMAIN f) |-> f[k - 1]]

RECURSIVE SumSeq(_)
\* sum() of a list
SumSeq(l) == IF l = <<>> THEN 0 ELSE Head(l) + SumSeq(Tail(l))

\* data_array of get_percent_mutations: the read counts behind its entries,
\* num_of_mutations[0:4] + [sum(num_of_mutations[5:])]
percent_mutation_counts(mh) ==
    LET l == ListOf(mh.num_of_mutations)
    IN  PySlice(l, 0, 4) \o <<SumSeq(PySlice(l, 5, Len(l)))>>

\* get_percent_mutations: round(count / num_aligned * 100, 2) for each entry
\* of data_array, in hundredths of a percent
get_percent_mutations(mh) ==
    IF mh.num_aligned # 0
        THEN LET counts == percent_mutation_counts(mh)
             IN  [k \in 1..Len(counts) |-> Round2(100 * counts[k], mh.num_aligned)]
        ELSE [k \in 1..5 |-> 0]

\* round(num / den, 5) in units of 0.00001, for num >= 0 and den > 0
Round5(num, den) ==
    LET h == (100000 * num) \div den
        r == 100000 * num - h * den
    IN  IF 2 * r > den THEN h + 1
        ELSE IF 2 * r = den /\ h % 2 = 1 THEN h + 1
        ELSE h

\* get_pop_avg: one entry per position of the window, in units of 0.00001.
\* The arrays are numpy arrays: dividing by a zero element raises nothing,
\* it warns and gives nan (the numerator is zero as well), which round()
\* keeps
get_pop_avg(mh, inc_del) ==
    [pos \in get_nuc_coords(mh) |->
        LET num == IF inc_del THEN mh.del_bases[pos] + mh.mut_bases[pos]
                   ELSE mh.mut_bases[pos]
        IN  IF mh.info_bases[pos] = 0
                THEN [nan |-> TRUE, value |-> 0]
                ELSE [nan |-> FALSE, value |-> Round5(num, mh.info_bases[pos])]]

\* the summary asks histogram w for its signal-to-noise ratio
SignalToNoise(w) ==
    /\ item = <<>>
    /\ LET result == get_signal_to_noise(histos[w])
       IN  op' = [kind |-> "signal_to_noise", a |-> w, b |-> w,
                  outcome |-> result.outcome, value |-> result.value]
    /\ pre' = histos
    /\ UNCHANGED <<histos, whole, absorbed, item, bitvec, params, nreads,
                   conv, written, sam, dicts>>

\* the summary asks histogram w for its mutation percentages
PercentMutations(w) ==
    /\ item = <<>>
    /\ op' = [kind |-> "percent_mutations", a |-> w, b |-> w,
              outcome |-> "returned", value |-> get_percent_mutations(histos[w])]
    /\ pre' = histos
    /\ UNCHANGED <<histos, whole, absorbed, item, bitvec, params, nreads,
                   conv, written, sam, dicts>>

\* the summary asks histogram w for its population average
PopAvg(w, inc_del) ==
    /\ item = <<>>
    /\ op' = [kind |-> "pop_avg", a |-> w, b |-> w, outcome |-> "returned",
              inc_del |-> inc_del, value |-> get_pop_avg(histos[w], inc_del)]
    /\ pre' = histos
    /\ UNCHANGED <<histos, whole, absorbed, item, bitvec, params, nreads,
                   conv, written, sam, dicts>>

\* references of the summary: RefSeq, one without A and C, one without G, U
\* and T, the empty one
StatRefs ==
    {RefSeq, <<"G", "G", "T", "T">>, <<"A", "A", "C", "C">>, <<>>}

\* reads of two bases at either end of a reference of four, a read with a
\* deletion, and a read of four bases that differs from RefSeq at each
StatItems ==
    {<<AlignedRead(pos, map_score_cutoff, <<"2", "M">>, c)>> :
        pos \in {1, Len(RefSeq) - 1},
        c \in [1..2 -> {<<"A", ";">>, <<"T", ";">>}]}
      \cup {<<AlignedRead(1, map_score_cutoff, <<"1", "M", "1", "D", "1", "M">>,
                          <<<<"T", ";">>, <<"T", ";">>>>)>>,
            <<AlignedRead(1, map_score_cutoff, <<"4", "M">>,
                          [k \in 1..4 |-> <<"T", ";">>])>>}

InitStats ==
    /\ \E ref_seq \in StatRefs :
          /\ histos = [w \in {1} |->
                          MutationHistogram(RefName, ref_seq, "DMS", 1, Len(ref_seq))]
          /\ whole = MutationHistogram(RefName, ref_seq, "DMS", 1, Len(ref_seq))
    /\ absorbed = [w \in {1} |-> {1}]
    /\ item = <<>>
    /\ bitvec = NoBitVector
    /\ op = NoOp
    /\ pre = histos
    /\ params = Params(FALSE, 1, 2)
    /\ nreads = 0
    /\ conv = NoFrame
    /\ written = NoRecord
    /\ sam = NoSam
    /\ dicts = NoDicts

NextStats ==
    \/ \E reads \in StatItems :
          /\ reads[1].pos + Len(reads[1].seq) - 1 <= Len(histos[1].sequence)
          /\ ReadNext(reads)
    \/ \E w \in DOMAIN histos : ProcessItem(w)
    \/ \E w \in DOMAIN histos : SignalToNoise(w)
    \/ \E w \in DOMAIN histos : PercentMutations(w)
    \/ \E w \in DOMAIN histos, inc_del \in BOOLEAN : PopAvg(w, inc_del)

SpecStats == InitStats /\ [][NextStats]_vars

\* the GU value signal_to_noise computes for the histogram it was asked for
GUValue ==
    SumOver(Before.mut_bases,
            {pos \in Before.start .. Before.end :
                Before.sequence[pos] \notin {"A", "C"}})

\* C20: signal_to_noise returns a value and raises no arithmetic error, for
\* every reference and every histogram; it returns 0.0 whenever the GU value
\* is zero
C20_SignalToNoiseDefined ==
    op.kind = "signal_to_noise" =>
        /\ op.outcome = "returned"
        /\ GUValue = 0 => op.value = 0

\* the number of aligned reads of the asked histogram with a number of
\* mutations in ns
ReadsWithMutations(ns) ==
    SumOver(Before.num_of_mutations, ns \cap DOMAIN Before.num_of_mutations)

\* C21: percent_mutations has five entries, the percentages of the aligned
\* reads with exactly 0, 1, 2, 3 and more than 3 mutations; the read counts
\* behind them sum to num_aligned; all five are 0.0 when num_aligned is 0
C21_PercentMutationsComplete ==
    op.kind = "percent_mutations" =>
        /\ Len(op.value) = 5
        /\ SumSeq(percent_mutation_counts(Before)) = Before.num_aligned
        /\ Before.num_aligned = 0 => \A k \in 1..5 : op.value[k] = 0
        /\ Before.num_aligned # 0 =>
              /\ \A n \in 0..3 :
                    op.value[n + 1] =
                        Round2(100 * ReadsWithMutations({n}), Before.num_aligned)
              /\ op.value[5] =
                    Round2(100 * ReadsWithMutations(4..Len(Before.sequence)),
                           Before.num_aligned)

\* C22: population_average has, at every position of the window, 0.0 when
\* the informative count is zero (no NaN), else the mutation count, plus the
\* deletion count when deletions are included, over the informative count,
\* rounded to 5 decimals
C22_PopAvgDefined ==
    op.kind = "pop_avg" =>
        /\ DOMAIN op.value = Before.start .. Before.end
        /\ \A pos \in DOMAIN op.value :
              /\ ~op.value[pos].nan
              /\ op.value[pos].value =
                    IF Before.info_bases[pos] = 0 THEN 0
                    ELSE Round5(Before.mut_bases[pos]
                                   + (IF op.inc_del THEN Before.del_bases[pos] ELSE 0),
                                Before.info_bases[pos])

----------------------------------------------------------------------------
(* Storage: bit vectors written in either format and converted between the  *)
(* formats (SpecStorage)                                                    *)

\* positions a stored map may cover
StoredPositions == 1..3

\* maps over the symbol alphabet
StoredMaps ==
    UNION {[cov -> Alphabet] : cov \in SUBSET StoredPositions}

\* the reads a stored bit vector comes from: a single read, or two mates
StoredReads ==
    LET r1 == AlignedRead(1, map_score_cutoff, <<"3", "M">>,
                          <<<<"C", ";">>, <<"A", ";">>, <<"G", ";">>>>)
        r2 == AlignedRead(2, map_score_cutoff + 1, <<"2", "M">>,
                          <<<<"A", ";">>, <<"G", ";">>>>)
    IN  {<<r1>>, <<r1, r2>>}

\* windows of a text writer: the whole map, a part of it, one that reaches
\* past it, an empty one
StoredWindows == {<<1, 3>>, <<2, 3>>, <<2, 4>>, <<3, 2>>}

\* sequences convert_json_to_text is given
StoredSequences == {RefSeq, <<"C", "A">>}

\* write_bit_vector of a writer of the given format on the last bit vector
WriteBitVector(format, start, end) ==
    /\ Len(bitvec.reads) > 0
    /\ written' =
          IF format = "json"
             THEN json_write_bit_vector(bitvec.data, bitvec.reads)
             ELSE text_write_bit_vector(
                      TextStorageWriter(RefName, RefSeq, "DMS", start, end),
                      Chars("read"), bitvec.data)
    /\ op' = [kind |-> "write", a |-> 0, b |-> 0, outcome |-> format]
    /\ UNCHANGED <<histos, whole, absorbed, item, bitvec, pre, params,
                   nreads, conv, sam, dicts>>

\* convert_text_to_json on the text file: the bit vector is rebuilt from the
\* bit string and written by a JSON writer
ConvertTextToJson(ref_name) ==
    /\ written.target = "text"
    /\ LET parsed == parse_text_bitvector_file(written)
           record == parsed.records[Len(parsed.records)]
           start == IF "start" \in DOMAIN parsed.metadata
                       THEN parsed.metadata.start ELSE 1
           bit_vector == text_to_bit_vector(record.bit_vector, start)
           reads == <<DummyRead(ref_name, 0)>>
       IN  /\ parsed.records # <<>>
           /\ bitvec' = [reads |-> reads, data |-> bit_vector]
           /\ written' = json_write_bit_vector(bit_vector, reads)
    /\ op' = [kind |-> "text_to_json", a |-> 0, b |-> 0, outcome |-> "converted",
              source |-> bitvec.data, record |-> written]
    /\ UNCHANGED <<histos, whole, absorbed, item, pre, params, nreads, conv,
                   sam, dicts>>

\* convert_json_to_text on muts.json: the bit vector is rebuilt from the
\* three objects and written by a text writer over the whole sequence
ConvertJsonToText(ref_name, sequence) ==
    /\ written.target = "json"
    /\ LET record == written.data
           bit_vector == json_to_bit_vector(record)
           reads == <<DummyRead(record.rname, record.mapq1)>>
       IN  /\ bitvec' = [reads |-> reads, data |-> bit_vector]
           /\ written' = text_write_bit_vector(
                             TextStorageWriter(ref_name, sequence, "DMS",
                                               1, Len(sequence)),
                             <<"r", "e", "a", "d", "_">> \o Chars(record.rname),
                             bit_vector)
    /\ op' = [kind |-> "json_to_text", a |-> 0, b |-> 0, outcome |-> "converted",
              source |-> bitvec.data, record |-> written]
    /\ UNCHANGED <<histos, whole, absorbed, item, pre, params, nreads, conv,
                   sam, dicts>>

InitStorage ==
    /\ histos = [w \in {1} |-> FreshHistogram]
    /\ whole = FreshHistogram
    /\ absorbed = [w \in {1} |-> {1}]
    /\ item = <<>>
    /\ \E reads \in StoredReads, data \in StoredMaps :
          bitvec = [reads |-> reads, data |-> data]
    /\ op = NoOp
    /\ pre = histos
    /\ params = Params(FALSE, 1, 2)
    /\ nreads = 1
    /\ conv = NoFrame
    /\ written = NoRecord
    /\ sam = NoSam
    /\ dicts = NoDicts

NextStorage ==
    \/ \E format \in {"text", "json"}, window \in StoredWindows :
          WriteBitVector(format, window[1], window[2])
    \/ ConvertTextToJson(RefName)
    \/ \E sequence \in StoredSequences : ConvertJsonToText(RefName, sequence)

SpecStorage == InitStorage /\ [][NextStorage]_vars

\* the entries of a map at the positions of a window
Restricted(d, start, end) ==
    [pos \in (DOMAIN d) \cap (start..end) |-> d[pos]]

\* C23: for a map over the symbol alphabet and a window [start, end], the
\* text writer's bit string has length end - start + 1, holds "." exactly at
\* the window positions the map lacks and the map's symbol at the others,
\* N_Mutations is the number of mutation calls in the window, and the bit
\* vector parsed back from the record (position = start + offset, "."
\* skipped) is the map restricted to the window
C23_TextRoundTrip ==
    op.kind = "text_to_json" =>
        LET source == op.source
            start == op.record.start
            end == op.record.end
            fields == split(strip(op.record.lines[4]), "\t")
            bit_string == fields[2]
        IN  /\ Len(bit_string) = end - start + 1
            /\ \A k \in 1..Len(bit_string) :
                  IF start + k - 1 \in DOMAIN source
                     THEN bit_string[k] = source[start + k - 1]
                     ELSE bit_string[k] = "."
            /\ int(fields[3])
                  = Cardinality({pos \in (DOMAIN source) \cap (start..end) :
                                    source[pos] \in Bases})
            /\ bitvec.data = Restricted(source, start, end)

\* a record of a window that lacks one position of the map and reaches past
\* it, with a mutation call and a NO_MUT inside, was parsed back
C23_Witness ==
    /\ op.kind = "text_to_json"
    /\ op.record.start = 2 /\ op.record.end = 4
    /\ DOMAIN op.source = {1, 3}
    /\ op.source[1] \in Bases
    /\ op.source[3] = "T"
    /\ DOMAIN bitvec.data = {3}

\* the positions of a map whose symbol is one of bits
Holding(d, bits) == {pos \in DOMAIN d : d[pos] \in bits}

\* the positions a JSON object names
Named(object) == {int(key) : key \in DOMAIN object}

\* C24: the JSON writer files every position that holds a mutation call, a
\* DELETION or an AMBIGUOUS in exactly one of the mutations, deletions and
\* ambiguous objects, and positions that hold NO_MUT or MISSING in none; the
\* bit vector rebuilt from the three objects is the map restricted to the
\* positions of the three kinds
C24_JsonRoundTrip ==
    op.kind = "json_to_text" =>
        LET source == op.source
            record == op.record.data
            kept == Holding(source, Bases \cup {del_bit, ambig_info})
        IN  /\ Named(record.muts) = Holding(source, Bases)
            /\ Named(record.dels) = Holding(source, {del_bit})
            /\ Named(record.ambigs) = Holding(source, {ambig_info})
            /\ \A key \in DOMAIN record.muts : record.muts[key] = source[int(key)]
            /\ \A key \in DOMAIN record.dels : record.dels[key] = del_bit
            /\ \A key \in DOMAIN record.ambigs : record.ambigs[key] = ambig_info
            /\ \A pos \in kept :
                  Cardinality({o \in {"muts", "dels", "ambigs"} :
                                  str(pos) \in DOMAIN record[o]}) = 1
            /\ \A pos \in Holding(source, {nomut_bit, miss_info}) :
                  \A o \in {"muts", "dels", "ambigs"} :
                      str(pos) \notin DOMAIN record[o]
            /\ bitvec.data = [pos \in kept |-> source[pos]]

\* the record of two mates' map with a DELETION, a mutation call and a
\* NO_MUT was rebuilt
C24_Witness ==
    /\ op.kind = "json_to_text"
    /\ DOMAIN op.source = {1, 2, 3}
    /\ op.source[1] = del_bit
    /\ op.source[2] = "G"
    /\ op.source[3] = nomut_bit
    /\ op.record.data.len2 = 2
    /\ DOMAIN bitvec.data = {1, 2}

----------------------------------------------------------------------------
(* SAM reader: PairedSamIterator over a file (SpecSam)                      *)
(*                                                                          *)
(* A line of the file is the tuple of its whitespace-separated fields, an   *)
(* empty line the empty tuple; the numeric fields are decimal strings.      *)

max_retries == 100

get_aligned_read_from_line(line) ==
    [qname |-> line[1],
     flag |-> line[2],
     rname |-> line[3],
     pos |-> int(line[4]),
     mapq |-> int(line[5]),
     cigar |-> line[6],
     rnext |-> line[7],
     pnext |-> int(line[8]),
     tlen |-> int(line[9]),
     seq |-> line[10],
     qual |-> line[11],
     md_string |-> split(line[12], ":")[3]]

\* f.readline().strip() with the file offset at line at
readline(lines, at) == IF at <= Len(lines) THEN lines[at] ELSE <<>>

\* the file offset after n more calls of readline
Advance(lines, at, n) == IF at + n <= Len(lines) THEN at + n ELSE Len(lines) + 1

\* the first test of the mates: position cross-reference and reference
MatesAligned(read_1, read_2) ==
    /\ read_1.pnext = read_2.pos
    /\ read_1.rname = read_2.rname
    /\ read_1.rnext = "="

\* the second test of the mates: query name and mapping quality
MatesNamed(read_1, read_2) ==
    /\ read_1.qname = read_2.qname
    /\ read_1.mapq = read_2.mapq

\* the reads of the lines at the given indices
ReadsAt(lines, from) ==
    [k \in 1..Len(from) |-> get_aligned_read_from_line(lines[from[k]])]

\* StopIteration out of __next__
Raised(lines, at, closed) ==
    [raised |-> TRUE, at |-> at, from |-> <<>>, pending |-> <<>>, closed |-> closed]

\* __next__ returns the reads of the lines from
Returned(lines, at, from, pending) ==
    [raised |-> FALSE, at |-> at, from |-> from, pending |-> pending,
     closed |-> FALSE]

\* the mates at the lines k and k + 1 pass both tests
ProperlyPaired(lines, k) ==
    /\ k + 1 <= Len(lines)
    /\ MatesAligned(get_aligned_read_from_line(lines[k]),
                    get_aligned_read_from_line(lines[k + 1]))
    /\ MatesNamed(get_aligned_read_from_line(lines[k]),
                  get_aligned_read_from_line(lines[k + 1]))

\* the line of mate 1 in the i-th pass of the retry loop that starts with
\* the mates of the lines at and at + 1
HeldIn(at, i) == at + 2 * (i - 1)

\* pass i leaves the loop: its mates are properly paired (break), or one of
\* the next two lines is empty (StopIteration)
Leaves(lines, at, i) ==
    \/ ProperlyPaired(lines, HeldIn(at, i))
    \/ readline(lines, HeldIn(at, i + 1)) = <<>>
    \/ readline(lines, HeldIn(at, i + 1) + 1) = <<>>

\* the retry loop of the native __next__ of python/src and the test after
\* it: retries is the number of the pass that leaves the loop, max_retries
\* when none does
retry_loop(lines, at) ==
    IF \E i \in 1..max_retries : Leaves(lines, at, i)
       THEN LET retries == CHOOSE i \in 1..max_retries :
                              /\ \A j \in 1..(i - 1) : ~Leaves(lines, at, j)
                              /\ Leaves(lines, at, i)
                held == HeldIn(at, retries)
            IN  IF ProperlyPaired(lines, held)
                   THEN IF retries >= max_retries
                           THEN Raised(lines, Advance(lines, held, 2), FALSE)
                           ELSE Returned(lines, Advance(lines, held, 2),
                                         <<held, held + 1>>, <<>>)
                   ELSE Raised(lines, Advance(lines, held, 4), FALSE)
       ELSE Raised(lines, Advance(lines, HeldIn(at, max_retries), 4), FALSE)

\* PairedSamIterator.__next__ of python/src, native backend
paired_next(lines, at) ==
    IF readline(lines, at) = <<>> \/ readline(lines, at + 1) = <<>>
       THEN Raised(lines, Advance(lines, at, 2), TRUE)
       ELSE retry_loop(lines, at)

\* PairedSamIterator.__next__ of rna_map/io/sam.py: a failed test calls
\* __next__ again and goes on with the mates that call left in the iterator
RECURSIVE paired_next_recursive(_, _)
paired_next_recursive(lines, at) ==
    IF readline(lines, at) = <<>> \/ readline(lines, at + 1) = <<>>
       THEN Raised(lines, Advance(lines, at, 2), FALSE)
       ELSE LET held == Returned(lines, Advance(lines, at, 2), <<at, at + 1>>, <<>>)
                mates == ReadsAt(lines, held.from)
                first == IF ~MatesAligned(mates[1], mates[2])
                            THEN paired_next_recursive(lines, held.at)
                            ELSE held
            IN  IF first.raised THEN first
                ELSE IF ~MatesNamed(ReadsAt(lines, first.from)[1],
                                    ReadsAt(lines, first.from)[2])
                   THEN paired_next_recursive(lines, first.at)
                ELSE first

\* bit of a SAM flag: pysam's is_unmapped is 4, is_read1 64, is_read2 128
FlagBit(flag, bit) == (flag \div bit) % 2 = 1

\* the AlignedRead the pysam backend builds from the segment of a line;
\* pysam gives 0-based positions, and the name of the mate's reference for
\* an RNEXT of "="
pysam_aligned_read(line) ==
    LET reference_start == int(line[4]) - 1
        next_reference_start == int(line[8]) - 1
    IN  [qname |-> line[1],
         flag |-> str(int(line[2])),
         rname |-> line[3],
         pos |-> reference_start + 1,
         mapq |-> int(line[5]),
         cigar |-> line[6],
         rnext |-> IF line[7] = "=" THEN line[3] ELSE line[7],
         pnext |-> IF next_reference_start >= 0 THEN next_reference_start + 1
                   ELSE 0,
         tlen |-> int(line[9]),
         seq |-> line[10],
         qual |-> line[11],
         md_string |-> split(line[12], ":")[3]]

\* the loop of the pysam backend: from holds the lines of the reads
\* collected so far
RECURSIVE pysam_collect(_, _, _)
pysam_collect(lines, at, from) ==
    IF Len(from) >= 2 THEN Returned(lines, at, from, <<>>)
    ELSE IF at > Len(lines)
       THEN [raised |-> from = <<>>, at |-> at, from |-> from,
             pending |-> <<>>, closed |-> TRUE]
    ELSE LET flag == int(lines[at][2])
         IN  IF FlagBit(flag, 4) THEN pysam_collect(lines, at + 1, from)
             ELSE IF FlagBit(flag, 64) \/ ~FlagBit(flag, 128)
                THEN IF from = <<>> THEN pysam_collect(lines, at + 1, <<at>>)
                     ELSE Returned(lines, at + 1, from, <<at>>)
             ELSE IF Len(from) = 1 /\ lines[from[1]][1] = lines[at][1]
                THEN pysam_collect(lines, at + 1, from \o <<at>>)
             ELSE pysam_collect(lines, at + 1, from)

\* PairedSamIterator.__next__ of python/src, pysam backend
paired_next_pysam(lines, at, pending_read) == pysam_collect(lines, at, pending_read)

\* a line of a SAM file for a read of two matches that agrees with RefSeq
SamLine(qname, flag, rname, pos, mapq, rnext, pnext, tlen) ==
    <<qname, str(flag), rname, str(pos), str(mapq), <<"2", "M">>, rnext,
      str(pnext), tlen, SubSeq(RefSeq, pos, pos + 1), <<";", ";">>,
      <<"M", "D", ":", "Z", ":", "2">>>>

\* the two lines of a pair: a consistent one, or one that fails in the
\* mate position, the reference, RNEXT, the query name or the mapping quality
PairKinds == {"good", "pnext", "rname", "rnext", "qname", "mapq"}

PairLines(kind) ==
    <<SamLine("read", 99, RefName, 1, map_score_cutoff,
              IF kind = "rnext" THEN "ref2" ELSE "=",
              IF kind = "pnext" THEN 2 ELSE 3, <<"4">>),
      SamLine(IF kind = "qname" THEN "read2" ELSE "read", 147,
              IF kind = "rname" THEN "ref2" ELSE RefName, 3,
              IF kind = "mapq" THEN map_score_cutoff + 1 ELSE map_score_cutoff,
              "=", 1, <<"-", "4">>)>>

\* the lines of a sequence of pairs
RECURSIVE FileOf(_)
FileOf(kinds) ==
    IF kinds = <<>> THEN <<>> ELSE PairLines(Head(kinds)) \o FileOf(Tail(kinds))

\* n pairs of one kind
Run(kind, n) == [k \in 1..n |-> kind]

\* files of up to two pairs of any kinds
ShortFiles == {FileOf(kinds) : kinds \in UNION {[1..n -> PairKinds] : n \in 0..2}}

\* files with a run of inconsistent pairs about as long as the retry limit,
\* followed by one or two consistent pairs
LongFiles ==
    {FileOf(Run(kind, n) \o Run("good", m)) :
        kind \in {"pnext", "mapq"},
        n \in {max_retries - 2, max_retries - 1, max_retries},
        m \in {1, 2}}

\* an iterator just constructed: the header lines are consumed
NewSam(backend, lines) ==
    [backend |-> backend, lines |-> lines, at |-> 1, pending_read |-> <<>>,
     closed |-> FALSE, stopped |-> FALSE, yielded |-> <<>>]

\* what a call of __next__ leaves: the iterator, the item yielded, the count
Stepped_sam(r, reads) ==
    /\ sam' = [sam EXCEPT !.at = r.at,
                          !.pending_read = r.pending,
                          !.closed = @ \/ r.closed,
                          !.stopped = r.raised,
                          !.yielded = IF r.raised THEN @ ELSE Append(@, r.from)]
    /\ item' = IF r.raised THEN <<>> ELSE reads
    /\ nreads' = IF r.raised THEN nreads ELSE nreads + 1
    /\ UNCHANGED <<histos, whole, absorbed, bitvec, op, pre, params, conv,
                   written, dicts>>

\* next() on the native iterator of python/src
PairedNext ==
    /\ sam.backend = "native"
    /\ ~sam.stopped
    /\ item = <<>>
    /\ LET r == paired_next(sam.lines, sam.at)
       IN  Stepped_sam(r, ReadsAt(sam.lines, r.from))

\* next() on the iterator of rna_map/io/sam.py
PairedNextRecursive ==
    /\ sam.backend = "recursive"
    /\ ~sam.stopped
    /\ item = <<>>
    /\ LET r == paired_next_recursive(sam.lines, sam.at)
       IN  Stepped_sam(r, ReadsAt(sam.lines, r.from))

\* next() on the pysam iterator of python/src; on a file closed at its
\* end the call ends the iteration
PairedNextPysam ==
    /\ sam.backend = "pysam"
    /\ ~sam.stopped
    /\ item = <<>>
    /\ LET r == IF sam.closed THEN Raised(sam.lines, sam.at, TRUE)
                ELSE paired_next_pysam(sam.lines, sam.at, sam.pending_read)
       IN  Stepped_sam(r, [k \in 1..Len(r.from) |->
                              pysam_aligned_read(sam.lines[r.from[k]])])

InitSam ==
    /\ histos = [w \in {1} |-> FreshHistogram]
    /\ whole = FreshHistogram
    /\ absorbed = [w \in {1} |-> {1}]
    /\ item = <<>>
    /\ bitvec = NoBitVector
    /\ op = NoOp
    /\ pre = histos
    /\ params = Params(FALSE, 1, 2)
    /\ nreads = 0
    /\ conv = NoFrame
    /\ written = NoRecord
    /\ dicts = NoDicts
    /\ \/ \E backend \in {"native", "recursive", "pysam"}, lines \in ShortFiles :
             sam = NewSam(backend, lines)
       \/ \E lines \in LongFiles : sam = NewSam("native", lines)

NextSam ==
    \/ PairedNext
    \/ PairedNextRecursive
    \/ PairedNextPysam
    \/ \E w \in DOMAIN histos : ProcessItem(w)

SpecSam == InitSam /\ [][NextSam]_vars

\* C25: in paired-end mode every item the reader yields is a list of two
\* reads with the same query name, mapping quality and reference name, and
\* with mate 1's pnext equal to mate 2's pos, whichever backend parses
C25_YieldsVerifiedPairs ==
    (sam.backend # "none" /\ item # <<>>) =>
        /\ Len(item) = 2
        /\ item[1].qname = item[2].qname
        /\ item[1].mapq = item[2].mapq
        /\ item[1].rname = item[2].rname
        /\ item[1].pnext = item[2].pos

\* the consistent pairs of a file, as the indices of their lines, in order
ConsistentPairs(lines) ==
    LET firsts == {k \in 1..Len(lines) : k % 2 = 1 /\ ProperlyPaired(lines, k)}
    IN  [n \in 1..Cardinality(firsts) |->
            LET k == CHOOSE j \in firsts :
                        Cardinality({i \in firsts : i < j}) = n - 1
            IN  <<k, k + 1>>]

IsPrefix(s, t) == Len(s) <= Len(t) /\ SubSeq(t, 1, Len(s)) = s

\* C30: the native iterator yields the consistent pairs of the file, each
\* once and in file order, and stops only when it has yielded them all,
\* however long the runs of inconsistent pairs between them
C30_NativeYieldsEveryPair ==
    sam.backend \in {"native", "recursive"} =>
        /\ IsPrefix(sam.yielded, ConsistentPairs(sam.lines))
        /\ sam.stopped => sam.yielded = ConsistentPairs(sam.lines)

----------------------------------------------------------------------------
(* Counter invariants of chunked runs (SpecMerge)                           *)

\* the skips of a histogram, all reasons together
SkipTotal(h) ==
    h.skips["low_mapq"] + h.skips["short_read"] + h.skips["too_many_muts"]
        + h.skips["muts_too_close"]

\* C26: after any processed bit vectors and any merges, every histogram has
\* num_reads = num_aligned + the four skip counters: each processed bit
\* vector is counted once, as aligned or under one skip reason
C26_ReadsAccounted ==
    /\ \A w \in DOMAIN histos :
          histos[w].num_reads = histos[w].num_aligned + SkipTotal(histos[w])
    /\ whole.num_reads = whole.num_aligned + SkipTotal(whole)

\* a merged histogram that accounts for accepted reads and for skips of two
\* reasons
C26_Witness ==
    /\ Merged
    /\ After.num_aligned >= 1
    /\ After.skips["low_mapq"] >= 1
    /\ After.skips["muts_too_close"] >= 1
    /\ Before.num_reads < After.num_reads

\* C27: after any records, skips and merges from fresh histograms, at every
\* position mut_bases is the sum of the four mod_bases arrays, and
\* mut_bases + del_bases <= cov_bases <= info_bases <= num_aligned
C27_CountersOrdered ==
    \A w \in DOMAIN histos :
        \A p \in DOMAIN histos[w].mut_bases :
            LET h == histos[w]
            IN  /\ h.mut_bases[p] = h.mod_bases["A"][p] + h.mod_bases["C"][p]
                                       + h.mod_bases["G"][p] + h.mod_bases["T"][p]
                /\ h.mut_bases[p] + h.del_bases[p] <= h.cov_bases[p]
                /\ h.cov_bases[p] <= h.info_bases[p]
                /\ h.info_bases[p] <= h.num_aligned

\* a merged histogram of two accepted reads with a mutation, a deletion, an
\* ambiguous position and a position one of the reads does not cover
C27_Witness ==
    /\ Merged
    /\ After.num_aligned >= 2
    /\ Before.num_aligned < After.num_aligned
    /\ \E p \in DOMAIN After.mut_bases : After.mut_bases[p] >= 1
    /\ \E p \in DOMAIN After.mut_bases :
          After.del_bases[p] >= 1 \/ pre[op.b].del_bases[p] >= 1
    /\ \E p \in DOMAIN After.mut_bases : After.cov_bases[p] < After.info_bases[p]
    /\ \E p \in 1..Len(After.sequence) : After.info_bases[p] < After.num_aligned

----------------------------------------------------------------------------
(* Read pairs whose mates meet in every pair of alphabet symbols            *)
(* (SpecMates): one-base reads with every base call, a deletion, a soft     *)
(* clip                                                                     *)

\* every base above the cutoff, and a base at the cutoff
MateCalls == {<<b, ";">> : b \in Bases} \cup {<<"A", ":">>}

SymbolMates ==
    ReadsOf(<<"1", "M">>, {map_score_cutoff}, MateCalls)
        \cup ReadsOf(<<"1", "M", "1", "D", "1", "M">>, {map_score_cutoff},
                     {<<"C", ";">>, <<"G", ";">>})
        \cup ReadsOf(<<"1", "M", "1", "S">>, {map_score_cutoff},
                     {<<"C", ";">>, <<"A", ";">>})

InitMates ==
    /\ histos = [w \in {1} |-> FreshHistogram]
    /\ whole = FreshHistogram
    /\ absorbed = [w \in {1} |-> {1}]
    /\ item \in {<<r1, r2>> : r1 \in SymbolMates, r2 \in SymbolMates}
    /\ bitvec = NoBitVector
    /\ op = NoOp
    /\ pre = histos
    /\ params = Params(FALSE, 1, 2)
    /\ nreads = 1
    /\ conv = NoFrame
    /\ written = NoRecord
    /\ sam = NoSam
    /\ dicts = NoDicts

SpecMates == InitMates /\ [][NextCore]_vars

\* _resolve_bit_conflict reaches its last statements: it logs "unable to
\* merge" and returns bit1
unable_to_merge(bit1, bit2) ==
    LET bits == {bit1, bit2}
    IN  /\ nomut_bit \notin bits
        /\ ambig_info \notin bits
        /\ miss_info \notin bits
        /\ ~(bit1 \in Bases /\ bit2 \in Bases)
        /\ ~is_mutation_vs_deletion(bit1, bit2)

\* the symbols of a map
SymbolsOf(d) == {d[p] : p \in DOMAIN d}

\* the positions both mates hold, with different symbols
Conflicts == {p \in (DOMAIN MateMap(1)) \cap (DOMAIN MateMap(2)) :
                 MateMap(1)[p] # MateMap(2)[p]}

\* C28: for two maps over the symbol alphabet, merging mate 1 with mate 2
\* and mate 2 with mate 1 gives the same map, and no conflict reaches the
\* fallback that keeps mate 1's symbol
C28_MergeCommutes ==
    (/\ Recorded
     /\ Len(bitvec.reads) = 2
     /\ SymbolsOf(MateMap(1)) \cup SymbolsOf(MateMap(2)) \subseteq Alphabet) =>
        /\ bitvec.data = merge_paired_bit_vectors(MateMap(2), MateMap(1))
        /\ \A p \in Conflicts : ~unable_to_merge(MateMap(1)[p], MateMap(2)[p])

\* a pair merged where DELETION meets the base letter C and a position is
\* held by one mate only
C28_Witness ==
    /\ Recorded
    /\ Len(bitvec.reads) = 2
    /\ SymbolsOf(MateMap(1)) \cup SymbolsOf(MateMap(2)) \subseteq Alphabet
    /\ \E p \in Conflicts :
          /\ MateMap(1)[p] = del_bit
          /\ MateMap(2)[p] = "C"
          /\ bitvec.data[p] = ambig_info
    /\ DOMAIN MateMap(1) # DOMAIN MateMap(2)

----------------------------------------------------------------------------
(* Histogram dictionaries (statistics.py): merge_mut_histo_dicts and        *)
(* merge_all_merge_mut_histo_dicts over histogram objects (SpecDicts).      *)
(* histos is the heap of MutationHistogram objects; a dictionary maps its   *)
(* keys to objects of the heap                                              *)

\* the dictionaries, one per chunk of a run
DictIds == {1, 2, 3}

\* the keys: reference names
DictKeys == {RefName, "ref2"}

\* the object constructed for dictionary d under a key
ObjectOf(d, key) == IF key = RefName THEN d ELSE Cardinality(DictIds) + d

Objects == {ObjectOf(d, key) : d \in DictIds, key \in DictKeys}

KeyOf(o) == CHOOSE key \in DictKeys : \E d \in DictIds : ObjectOf(d, key) = o

\* merge_mut_histo_dicts(left, right): the heap and what each dictionary
\* holds after the loop over right's keys. A key of both has left's object
\* merged with right's; a key of right alone has right's object stored in left
merge_mut_histo_dicts(heap, held, left, right) ==
    LET both == (DOMAIN held[left]) \cap (DOMAIN held[right])
        Target(o) == {key \in both : held[left][key] = o}
    IN  [heap |-> [o \in DOMAIN heap |->
                      IF Target(o) # {}
                          THEN LET key == CHOOSE k \in Target(o) : TRUE
                               IN  merge(heap[o], heap[held[right][key]])
                          ELSE heap[o]],
         held |-> [held EXCEPT ![left] =
                      [key \in (DOMAIN held[left]) \cup (DOMAIN held[right]) |->
                          IF key \in DOMAIN held[left]
                              THEN held[left][key]
                              ELSE held[right][key]]]]

\* the loop of merge_all_merge_mut_histo_dicts over the rest of the list
RECURSIVE merge_each(_, _, _, _)
merge_each(heap, held, merged, rest) ==
    IF rest = <<>>
        THEN [heap |-> heap, held |-> held]
        ELSE LET r == merge_mut_histo_dicts(heap, held, merged, Head(rest))
             IN  merge_each(r.heap, r.held, merged, Tail(rest))

\* merge_all_merge_mut_histo_dicts(mut_histos): pop(0) takes the first
\* dictionary off the caller's list, the others are merged into it in order
merge_all_merge_mut_histo_dicts(heap, held, mut_histos) ==
    LET merged == Head(mut_histos)
        r == merge_each(heap, held, merged, Tail(mut_histos))
    IN  [heap |-> r.heap, held |-> r.held, merged |-> merged,
         mut_histos |-> Tail(mut_histos)]

SeqRange(s) == {s[k] : k \in DOMAIN s}

\* a call merge_mut_histo_dicts(d[left], d[right]) on two dictionaries; a
\* dictionary is merged from once
MergeMutHistoDicts(left, right) ==
    /\ dicts.mut_histos # <<>>
    /\ left # right
    /\ right \notin dicts.rights
    /\ LET r == merge_mut_histo_dicts(histos, dicts.held, left, right)
       IN  /\ histos' = r.heap
           /\ dicts' = [dicts EXCEPT !.held = r.held,
                                     !.lefts = @ \cup {left},
                                     !.rights = @ \cup {right}]
    /\ pre' = histos
    /\ op' = [kind |-> "merge_dicts", a |-> left, b |-> right,
              outcome |-> "merged"]
    /\ UNCHANGED <<whole, absorbed, item, bitvec, params, nreads, conv,
                   written, sam>>

\* a call merge_all_merge_mut_histo_dicts(mut_histos) on the list
MergeAllMergeMutHistoDicts ==
    /\ dicts.mut_histos # <<>>
    /\ SeqRange(Tail(dicts.mut_histos)) \cap dicts.rights = {}
    /\ LET r == merge_all_merge_mut_histo_dicts(histos, dicts.held,
                                                dicts.mut_histos)
       IN  /\ histos' = r.heap
           /\ dicts' = [dicts EXCEPT
                  !.held = r.held,
                  !.mut_histos = r.mut_histos,
                  !.lefts = @ \cup {r.merged},
                  !.rights = @ \cup SeqRange(r.mut_histos)]
           /\ op' = [kind |-> "merge_all", a |-> r.merged, b |-> 0,
                     outcome |-> "merged"]
    /\ pre' = histos
    /\ UNCHANGED <<whole, absorbed, item, bitvec, params, nreads, conv,
                   written, sam>>

\* the histograms a chunk may leave: reads skipped for one reason or another
ChunkSkips == {"low_mapq", "short_read"}

InitDicts ==
    /\ \E skipped \in [DictIds -> ChunkSkips] :
          histos = [o \in Objects |->
                       LET d == CHOOSE d \in DictIds : ObjectOf(d, KeyOf(o)) = o
                       IN  record_skip(
                               MutationHistogram(KeyOf(o), RefSeq, "DMS", 1,
                                                 Len(RefSeq)),
                               skipped[d])]
    /\ \E keys \in [DictIds -> (SUBSET DictKeys) \ {{}}] :
          dicts = [mut_histos |-> <<1, 2, 3>>,
                   held |-> [d \in DictIds |->
                                [key \in keys[d] |-> ObjectOf(d, key)]],
                   made |-> histos,
                   lefts |-> {},
                   rights |-> {}]
    /\ whole = FreshHistogram
    /\ absorbed = [d \in DictIds |-> {d}]
    /\ item = <<>>
    /\ bitvec = NoBitVector
    /\ op = NoOp
    /\ pre = histos
    /\ params = Params(FALSE, 1, 2)
    /\ nreads = 0
    /\ conv = NoFrame
    /\ written = NoRecord
    /\ sam = NoSam

NextDicts ==
    \/ \E left \in DictIds, right \in DictIds : MergeMutHistoDicts(left, right)
    \/ MergeAllMergeMutHistoDicts

SpecDicts == InitDicts /\ [][NextDicts]_vars

\* the objects constructed for dictionary d
MadeFor(d) == {ObjectOf(d, key) : key \in DOMAIN dicts.held[d]}

\* C29: the dictionary merges modify only the left (first) dictionary and
\* its histograms: every histogram of a dictionary that was only ever on the
\* right-hand side keeps the counters and arrays it was constructed with,
\* also after further dictionaries are merged into the same left dictionary
C29_RightHandKept ==
    \A d \in dicts.rights \ dicts.lefts :
        \A o \in MadeFor(d) : histos[o] = dicts.made[o]

====
